---- MODULE Spec2Model ----
(***************************************************************************)
(* Model of the cargo-semver-checks labeler action (src/src/index.ts).     *)
(*                                                                         *)
(* SpecResolve  : resolvePrContext, one step per stretch of code between   *)
(*                two awaits, run under withRetries as run() invokes it.   *)
(* SpecClassify : determineSemverType applied to bounded tool outputs.     *)
(* SpecAnsi     : determineSemverType on coloured and uncoloured output.   *)
(* SpecRetry    : withRetries around an arbitrary operation; SpecRetryFair *)
(*                adds that every invocation settles and every timer fires.*)
(* SpecLabel    : upsertSemverLabel under withRetries, against the labels  *)
(*                the platform holds.                                      *)
(* SpecInstall  : installCargoSemverChecks and its network requests.       *)
(* SpecRun      : run() from the event to the catch clause.                *)
(* SpecArgs     : the argument list runSemverChecks builds.                *)
(* SpecJson     : the structured-output invocation of src/src/index.js and *)
(*                its retry without the flag.                              *)
(* SpecStructured : determineSemverType of src/src/index.js on structured  *)
(*                output.                                                  *)
(* SpecStdio    : src/src/stdio.ts, the guards against broken pipes.       *)
(***************************************************************************)
EXTENDS Integers, Sequences, FiniteSets, TLC

VARIABLES
    event,          \* github.context: eventName and payload
    pc,             \* position of the resolver: start, list, commit, get, backoff, done
    attempt,        \* withRetries' loop variable
    prNumber,       \* resolvePrContext's local prNumber (0: undefined)
    baseSha,        \* resolvePrContext's local baseSha ("": undefined)
    calls,          \* platform lookups of the current attempt, in order, each with its fate
    listQuery,      \* the head and state arguments of the last pulls.list call
    headPRs,        \* data of the last pulls.list response
    associatedPRs,  \* data of the last listPullRequestsAssociatedWithCommit response
    prData,         \* base.sha of the last pulls.get response
    result,         \* what withRetries(resolvePrContext) returned or threw
    tool,           \* CommandResult of the checker: status, stdout, stderr
    semver,         \* what determineSemverType returned or threw
    plainTool,      \* the checker's result had it been run without colours
    plainSemver,    \* what determineSemverType makes of plainTool
    operations,     \* the invocations of withRetries' operation, each with its outcome
    waits,          \* the delays withRetries waited, in milliseconds
    labelPrefix,    \* the label-prefix input
    newLabel,       \* `${labelPrefix}${semverType}`
    prLabels,       \* platform side: the names of the labels on the pull request, as listed
    repoLabels,     \* platform side: the names of the labels the repository defines
    existingLabels, \* data of the last listLabelsOnIssue response, names in order
    cursor,         \* index in existingLabels of the label being removed (0: none)
    labelCalls,     \* every label call issued, in order, each with its fate
    labelResult,    \* what withRetries(upsertSemverLabel) returned or threw
    startLabels,    \* the labels on the pull request when this run began
    round,          \* 1: the run, 2: the same run done once more
    others,         \* somebody else changed the labels meanwhile
    version,        \* the cargo-semver-checks-version input
    useReleaseBinary, \* the use-release-binary input
    triple,         \* getTargetTriple(): the target triple, "" for null
    requests,       \* the https requests made, in order, each with its fate
    installed,      \* how the checker got installed: none, release, cargo
    releaseError,   \* the error installFromRelease threw, caught at line 256
    installError,   \* the error installCargoSemverChecks threw
    commands,       \* the commands runCommand was called with, in order
    options,        \* the SemverChecksOptions runSemverChecks is called with
    args,           \* the argument list runSemverChecks hands to cargo
    invocations,    \* the checker invocations of runSemverChecks, each with its result
    updatesUsed,    \* index.js: requiredUpdates, the set determineSemverType classifies from
    streamBroken,   \* stdio.ts: the flag of the same name
    streams,        \* stdout and stderr: destroyed, writableEnded, writable
    exited,         \* the process has exited
    exitCause,      \* the error process.exit(1) was called for
    delivered,      \* the errors delivered to the process, each with the way it came
    lastWrite,      \* the last call of a wrapped write: what it met and what it did
    thrown,         \* the error that reached the catch clause of run()
    failure,        \* the message core.setFailed was called with
    semverOutput,   \* the semver-type output core.setOutput was called with
    gitStatuses     \* what the git commands of ensureGitShaAvailable exited with, in order

\* the variables of the resolver and of the classifier
coreVars == <<event, pc, attempt, prNumber, baseSha, calls, listQuery,
              headPRs, associatedPRs, prData, result, tool, semver>>
\* the variables of the comparison with uncoloured output
ansiVars == <<plainTool, plainSemver>>
\* the variables the resolver and the classifier never touch
\* the variables of withRetries around any operation
retryVars == <<operations, waits>>
\* the variables of label reconciliation
labelVars == <<labelPrefix, newLabel, prLabels, repoLabels, existingLabels, cursor,
               labelCalls, labelResult, startLabels, round, others>>
\* the variables of the installation of the checker
installVars == <<version, useReleaseBinary, triple, requests, installed,
                 releaseError, installError, commands>>
\* the variables of run() itself
runVars == <<thrown, failure, semverOutput, gitStatuses>>
\* the variables of runSemverChecks
toolVars == <<options, args, invocations, updatesUsed>>
\* the variables of stdio.ts and of the process
stdioVars == <<streamBroken, streams, exited, exitCause, delivered, lastWrite>>
sideVars == <<toolVars, stdioVars>>
otherVars == <<ansiVars, retryVars, sideVars, labelVars, installVars, runVars, sideVars>>

vars == <<coreVars, otherVars>>

----------------------------------------------------------------------------
(* Bounds of the model *)

\* longest list of pull requests in a payload or a lookup response
MaxPRs == 2
\* pull request numbers are 1..MaxPrNumber
MaxPrNumber == 2

----------------------------------------------------------------------------
(* Values *)

\* a number that is undefined in the payload (falsy, like 0)
NoNumber == 0
\* a string that is undefined or empty in the payload (falsy)
NoString == ""

PrNumbers == 1..MaxPrNumber
Shas == {"sha-a", "sha-b"}

\* a pull request as the platform API returns it: the number is always there
ApiPRs == [number : PrNumbers, base : Shas \cup {NoString}]
\* a pull request summary of the workflow_run payload: any field may be missing
PayloadPRs == [number : PrNumbers \cup {NoNumber}, base : Shas \cup {NoString}]

SeqsUpTo(S, n) == UNION {[1..k -> S] : k \in 0..n}

RETRYABLE_STATUS_CODES == {502, 503, 504}
\* statuses a failing platform call is drawn from
ApiFailureStatuses == RETRYABLE_STATUS_CODES \cup {403}

NoPullRequest == [present |-> FALSE, number |-> NoNumber, base |-> NoString]
NoWorkflowRun ==
    [present |-> FALSE, conclusion |-> NoString, pull_requests |-> <<>>,
     owner_login |-> NoString, owner_name |-> NoString,
     head_branch |-> NoString, head_sha |-> NoString]

PullRequestPayloads ==
    {NoPullRequest} \cup
    [present : {TRUE}, number : PrNumbers \cup {NoNumber}, base : Shas \cup {NoString}]

WorkflowRunPayloads ==
    {NoWorkflowRun} \cup
    [present : {TRUE},
     conclusion : {"success", "failure", "cancelled", NoString},
     pull_requests : SeqsUpTo(PayloadPRs, MaxPRs),
     owner_login : {"octo", NoString},
     owner_name : {"octo-org", NoString},
     head_branch : {"feature", NoString},
     head_sha : {"sha-h", NoString}]

Events ==
    [eventName : {"pull_request"}, pull_request : PullRequestPayloads,
     workflow_run : {NoWorkflowRun}]
    \cup
    [eventName : {"workflow_run"}, pull_request : {NoPullRequest},
     workflow_run : WorkflowRunPayloads]
    \cup
    [eventName : {"push"}, pull_request : {NoPullRequest},
     workflow_run : {NoWorkflowRun}]
    \cup
    [eventName : {"pull_request_target"},
     pull_request : PullRequestPayloads \ {NoPullRequest},
     workflow_run : {NoWorkflowRun}]

----------------------------------------------------------------------------
(* Results of withRetries(resolvePrContext) *)

NoResult ==
    [kind |-> "none", prNumber |-> NoNumber, baseSha |-> NoString,
     reason |-> NoString, message |-> NoString, status |-> 0]

\* { skip: true, reason }
SkipResult(reason) == [NoResult EXCEPT !.kind = "skip", !.reason = reason]

\* { skip: false, prNumber, baseSha }
ProceedResult(n, sha) ==
    [NoResult EXCEPT !.kind = "proceed", !.prNumber = n, !.baseSha = sha]

\* throw new Error(message): a plain Error carries no status
ErrorResult(message) == [NoResult EXCEPT !.kind = "error", !.message = message]

\* the error a failed platform call rejects with: it carries the HTTP status
ApiErrorResult(status) ==
    [NoResult EXCEPT !.kind = "error", !.message = "HttpError", !.status = status]

----------------------------------------------------------------------------
(* withRetries and isRetryableError *)

\* maxAttempts = 3, the default run() uses
MaxAttempts == 3

\* status && RETRYABLE_STATUS_CODES.has(status); a plain Error has no status (0)
isRetryableError(err) == err.status # 0 /\ err.status \in RETRYABLE_STATUS_CODES

\* mutant of RetryGivesUp: the last attempt is not told from the others
RetryGivesUp_NeverOnCount(att, err) == ~isRetryableError(err)

\* mutant of RetryGivesUp: the attempts are counted from zero
RetryGivesUp_OffByOne(att, err) == att > MaxAttempts \/ ~isRetryableError(err)

\* the catch clause of withRetries: rethrow, or warn, wait and go round again
RetryGivesUp(att, err) == att >= MaxAttempts \/ ~isRetryableError(err)

----------------------------------------------------------------------------
(* resolvePrContext: each operator is the code from one await (or the      *)
(* entry) to the next await, return or throw.  An outcome says where the   *)
(* function stops: awaiting a lookup, returning a value, or throwing.      *)

NoQuery == [head |-> NoString, state |-> NoString]

Await(api, n, sha, query) ==
    [next |-> api, prNumber |-> n, baseSha |-> sha, query |-> query, value |-> NoResult]
Return(n, sha, value) ==
    [next |-> "return", prNumber |-> n, baseSha |-> sha, query |-> NoQuery, value |-> value]
Throw(n, sha, err) ==
    [next |-> "throw", prNumber |-> n, baseSha |-> sha, query |-> NoQuery, value |-> err]

\* a || b on strings
OrElse(a, b) == IF a # NoString THEN a ELSE b

\* headRepo?.owner?.login || headRepo?.owner?.name
HeadOwner(run) == OrElse(run.owner_login, run.owner_name)

\* `${headOwner}:${headBranch}`
HeadRef(run) == HeadOwner(run) \o ":" \o run.head_branch

\* conclusion ? String(conclusion) : "unknown"
Rendered(conclusion) == IF conclusion # NoString THEN conclusion ELSE "unknown"

SkipReason(conclusion) ==
    "workflow_run conclusion is " \o Rendered(conclusion) \o "; skipping semver checks."

\* mutant of ConclusionSkips: only a failed upstream run is skipped
ConclusionSkips_OnlyFailure(conclusion) == conclusion = "failure"

\* conclusion !== "success"
ConclusionSkips(conclusion) == conclusion # "success"

\* mutant of FirstBase: the payload's base commit is not picked up
FirstBase_Dropped(prs) == NoString

\* pullRequests[0]?.base?.sha
FirstBase(prs) == IF Len(prs) >= 1 THEN prs[1].base ELSE NoString

\* mutant of NeedsPrFetch: the pull request is fetched whatever is known
NeedsPrFetch_Always(sha) == TRUE

\* if (!baseSha) { pulls.get } ... return { skip: false, prNumber, baseSha }
NeedsPrFetch(sha) == sha = NoString

\* lines 482-499 up to the await of pulls.get
FromNumber(n, sha) ==
    IF n = NoNumber
    THEN Throw(n, sha, ErrorResult("workflow_run pull_request is missing number."))
    ELSE IF NeedsPrFetch(sha)
         THEN Await("pulls.get", n, sha, NoQuery)
         ELSE Return(n, sha, ProceedResult(n, sha))

\* lines 492-499 after pulls.get resolved with base.sha = fetched
AfterGet(n, sha, fetched) ==
    LET sha2 == OrElse(fetched, NoString) IN
    IF sha2 = NoString
    THEN Throw(n, sha2, ErrorResult("Unable to determine the PR base SHA."))
    ELSE Return(n, sha2, ProceedResult(n, sha2))

\* mutant of NeedsCommitLookup: the commit is looked up whatever the branch gave
NeedsCommitLookup_Always(n) == TRUE

\* if (!prNumber): the commit-association lookup is still needed
NeedsCommitLookup(n) == n = NoNumber

\* lines 455-466 up to the await of listPullRequestsAssociatedWithCommit
FromBranch(n, sha, run) ==
    IF NeedsCommitLookup(n)
    THEN IF run.head_sha = NoString
         THEN Throw(n, sha, ErrorResult("workflow_run is missing head_sha."))
         ELSE Await("repos.listPullRequestsAssociatedWithCommit", n, sha, NoQuery)
    ELSE FromNumber(n, sha)

\* mutant of HeadRefAmbiguous: two pull requests on the head ref go unnoticed
HeadRefAmbiguous_OffByOne(prs) == Len(prs) > 2

\* headPRs.length > 1
HeadRefAmbiguous(prs) == Len(prs) > 1

\* lines 447-453 after pulls.list resolved, then on to line 455
AfterList(prs, n, sha, run) ==
    IF Len(prs) = 1
    THEN FromBranch(prs[1].number, OrElse(prs[1].base, sha), run)
    ELSE IF HeadRefAmbiguous(prs)
         THEN Throw(n, sha, ErrorResult("Unable to resolve PR from head ref; found "
                                        \o ToString(Len(prs)) \o "."))
         ELSE FromBranch(n, sha, run)

\* mutant of CommitAmbiguous: only an empty answer is refused
CommitAmbiguous_OnlyEmpty(prs) == Len(prs) = 0

\* associatedPRs.length !== 1
CommitAmbiguous(prs) == Len(prs) # 1

\* lines 470-475 after the commit lookup resolved, then on to line 482
AfterCommit(prs, n, sha) ==
    IF CommitAmbiguous(prs)
    THEN Throw(n, sha, ErrorResult("Unable to resolve PR from head_sha; found "
                                   \o ToString(Len(prs)) \o "."))
    ELSE FromNumber(prs[1].number, OrElse(prs[1].base, sha))

\* headOwner && headBranch
BranchLookupPossible(run) == HeadOwner(run) # NoString /\ run.head_branch # NoString

\* mutant of ExactlyOneCorrelated: the first of several pull requests is taken
ExactlyOneCorrelated_AtLeastOne(prs) == Len(prs) >= 1

\* pullRequests.length === 1
ExactlyOneCorrelated(prs) == Len(prs) = 1

\* lines 423-480 of the workflow_run branch, after the conclusion check
FromPullRequests(run) ==
    LET prs == run.pull_requests
        sha == FirstBase(prs)
    IN  IF ExactlyOneCorrelated(prs)
        THEN FromNumber(prs[1].number, sha)
        ELSE IF Len(prs) = 0
             THEN IF BranchLookupPossible(run)
                  THEN Await("pulls.list", NoNumber, sha,
                             [head |-> HeadRef(run), state |-> "open"])
                  ELSE FromBranch(NoNumber, sha, run)
             ELSE Throw(NoNumber, sha,
                        ErrorResult("workflow_run must have exactly one pull request, found "
                                    \o ToString(Len(prs)) \o "."))

\* lines 398-421
FromWorkflowRun(run) ==
    IF ~run.present
    THEN Throw(NoNumber, NoString, ErrorResult("Missing workflow_run payload."))
    ELSE IF ConclusionSkips(run.conclusion)
         THEN Return(NoNumber, NoString, SkipResult(SkipReason(run.conclusion)))
         ELSE FromPullRequests(run)

\* lines 384-396
FromPullRequest(pr) ==
    IF ~pr.present
    THEN Throw(NoNumber, NoString, ErrorResult("Missing pull_request payload."))
    ELSE IF pr.base = NoString
         THEN Throw(NoNumber, NoString, ErrorResult("Unable to determine the PR base SHA."))
         ELSE Return(pr.number, pr.base, ProceedResult(pr.number, pr.base))

\* mutant of Begin: whatever is no workflow_run is read as a pull_request
Begin_PullRequestByDefault(ev) ==
    IF ev.eventName = "workflow_run"
    THEN FromWorkflowRun(ev.workflow_run)
    ELSE FromPullRequest(ev.pull_request)

\* lines 379-502 from the entry to the first await, return or throw
Begin(ev) ==
    IF ev.eventName = "pull_request"
    THEN FromPullRequest(ev.pull_request)
    ELSE IF ev.eventName = "workflow_run"
         THEN FromWorkflowRun(ev.workflow_run)
         ELSE Throw(NoNumber, NoString,
                    ErrorResult("Unsupported event type: " \o ev.eventName))

----------------------------------------------------------------------------
(* The resolver as run() drives it: withRetries(() => resolvePrContext())  *)

Lookups == {"pulls.list", "repos.listPullRequestsAssociatedWithCommit", "pulls.get"}

\* the log of calls once the call in flight (the last one) met its fate
Settled(log, fate) == [log EXCEPT ![Len(log)].fate = fate]

\* the state after the attempt att reached outcome o, having issued log so far
Apply(att, log, o) ==
    /\ attempt' = att
    /\ prNumber' = o.prNumber
    /\ baseSha' = o.baseSha
    /\ IF o.next \in Lookups
       THEN /\ pc' = o.next
            /\ calls' = Append(log, [api |-> o.next, fate |-> "pending"])
            /\ listQuery' = IF o.next = "pulls.list" THEN o.query ELSE listQuery
            /\ result' = result
       ELSE /\ calls' = log
            /\ listQuery' = listQuery
            /\ IF o.next = "return"
               THEN pc' = "done" /\ result' = o.value
               ELSE IF RetryGivesUp(att, o.value)
                    THEN pc' = "done" /\ result' = o.value
                    ELSE pc' = "backoff" /\ result' = result

\* no checker run yet, nothing classified
NoTool == [status |-> 0, stdout |-> <<>>, stderr |-> <<>>]
NoSemver == [kind |-> "none", type |-> NoString, message |-> NoString, output |-> <<>>]

\* nothing to compare
AnsiIdle == plainTool = NoTool /\ plainSemver = NoSemver

\* withRetries not called
RetryIdle == operations = <<>> /\ waits = <<>>

\* no label reconciliation
LabelIdle ==
    /\ labelPrefix = NoString
    /\ newLabel = NoString
    /\ prLabels = <<>>
    /\ repoLabels = {}
    /\ existingLabels = <<>>
    /\ cursor = 0
    /\ labelCalls = <<>>
    /\ labelResult = NoResult
    /\ startLabels = {}
    /\ round = 1
    /\ others = FALSE

\* nothing installed, nothing asked for
InstallIdle ==
    /\ version = NoString
    /\ useReleaseBinary = FALSE
    /\ triple = NoString
    /\ requests = <<>>
    /\ installed = "none"
    /\ releaseError = NoResult
    /\ installError = NoResult
    /\ commands = <<>>

\* no message recorded
NoMessage == [set |-> FALSE, message |-> <<>>]

\* run() has not got anywhere
RunIdle ==
    /\ thrown = NoMessage
    /\ failure = NoMessage
    /\ semverOutput = NoString
    /\ gitStatuses = <<>>

\* no checker arguments built, no checker invoked
NoOptions ==
    [baseSha |-> NoString, packageName |-> NoString, toolchain |-> NoString,
     featureGroup |-> NoString, features |-> NoString, rustTarget |-> NoString]
ToolIdle ==
    options = NoOptions /\ args = <<>> /\ invocations = <<>> /\ updatesUsed = {}

\* both streams open, nothing delivered, the process alive
OpenStream == [destroyed |-> FALSE, writableEnded |-> FALSE, writable |-> TRUE]
NoError == [code |-> NoString, message |-> NoString]
NoWrite ==
    [stream |-> NoString, broken |-> FALSE, state |-> OpenStream, called |-> FALSE,
     returned |-> NoString]
StdioIdle ==
    /\ streamBroken = FALSE
    /\ streams = [s \in {"stdout", "stderr"} |-> OpenStream]
    /\ exited = FALSE
    /\ exitCause = NoError
    /\ delivered = <<>>
    /\ lastWrite = NoWrite

SideIdle == ToolIdle /\ StdioIdle

\* the variables of otherVars at rest
OthersIdle == AnsiIdle /\ RetryIdle /\ LabelIdle /\ InstallIdle /\ RunIdle /\ SideIdle

InitResolve ==
    /\ OthersIdle
    /\ tool = NoTool
    /\ semver = NoSemver
    /\ event \in Events
    /\ pc = "start"
    /\ attempt = 1
    /\ prNumber = NoNumber
    /\ baseSha = NoString
    /\ calls = <<>>
    /\ listQuery = NoQuery
    /\ headPRs = <<>>
    /\ associatedPRs = <<>>
    /\ prData = NoString
    /\ result = NoResult

\* run() calls withRetries: the first attempt runs to its first await
Resolve ==
    /\ pc = "start"
    /\ Apply(1, <<>>, Begin(event))
    /\ UNCHANGED <<event, headPRs, associatedPRs, prData, tool, semver>>
    /\ UNCHANGED otherVars

\* pulls.list resolves
PullsListReturns ==
    /\ pc = "pulls.list"
    /\ \E prs \in SeqsUpTo(ApiPRs, MaxPRs) :
          /\ headPRs' = prs
          /\ Apply(attempt, Settled(calls, "resolved"), AfterList(prs, prNumber, baseSha, event.workflow_run))
    /\ UNCHANGED <<event, associatedPRs, prData, tool, semver>>
    /\ UNCHANGED otherVars

\* listPullRequestsAssociatedWithCommit resolves
CommitLookupReturns ==
    /\ pc = "repos.listPullRequestsAssociatedWithCommit"
    /\ \E prs \in SeqsUpTo(ApiPRs, MaxPRs) :
          /\ associatedPRs' = prs
          /\ Apply(attempt, Settled(calls, "resolved"), AfterCommit(prs, prNumber, baseSha))
    /\ UNCHANGED <<event, headPRs, prData, tool, semver>>
    /\ UNCHANGED otherVars

\* pulls.get resolves
PullsGetReturns ==
    /\ pc = "pulls.get"
    /\ \E fetched \in Shas \cup {NoString} :
          /\ prData' = fetched
          /\ Apply(attempt, Settled(calls, "resolved"), AfterGet(prNumber, baseSha, fetched))
    /\ UNCHANGED <<event, headPRs, associatedPRs, tool, semver>>
    /\ UNCHANGED otherVars

\* the lookup in flight rejects: the error leaves resolvePrContext as it is
LookupFails ==
    /\ pc \in Lookups
    /\ \E status \in ApiFailureStatuses :
          Apply(attempt, Settled(calls, "rejected"), Throw(prNumber, baseSha, ApiErrorResult(status)))
    /\ UNCHANGED <<event, headPRs, associatedPRs, prData, tool, semver>>
    /\ UNCHANGED otherVars

\* the wait of withRetries is over: the next attempt runs to its first await
BackoffElapsed ==
    /\ pc = "backoff"
    /\ headPRs' = <<>>
    /\ associatedPRs' = <<>>
    /\ prData' = NoString
    /\ Apply(attempt + 1, <<>>, Begin(event))
    /\ UNCHANGED <<event, tool, semver>>
    /\ UNCHANGED otherVars

NextResolve ==
    \/ Resolve
    \/ PullsListReturns
    \/ CommitLookupReturns
    \/ PullsGetReturns
    \/ LookupFails
    \/ BackoffElapsed

SpecResolve == InitResolve /\ [][NextResolve]_vars

----------------------------------------------------------------------------
(* Text: a string is the sequence of its characters, each a one-character  *)
(* string, with the escape character (code 27) as the symbol ESC.          *)

\* String.fromCharCode(27)
ANSI_ESCAPE == "ESC"

\* the characters of a string
Chars(str) == [i \in 1..Len(str) |-> SubSeq(str, i, i)]

UpperCaseLetters == "ABCDEFGHIJKLMNOPQRSTUVWXYZ"
LowerCaseLetters == "abcdefghijklmnopqrstuvwxyz"

UpperCase == {SubSeq(UpperCaseLetters, k, k) : k \in 1..26}
LowerCaseOf ==
    [c \in UpperCase |->
        LET k == CHOOSE k \in 1..26 : SubSeq(UpperCaseLetters, k, k) = c
        IN  SubSeq(LowerCaseLetters, k, k)]

\* the case folding of the i flag and of toLowerCase()
ToLower(c) == IF c \in UpperCase THEN LowerCaseOf[c] ELSE c

LowerCased(text) == [i \in 1..Len(text) |-> ToLower(text[i])]

\* \s, and what trim() removes
Whitespace == {" ", "\n", "\t", "\r"}

\* mutant of AnsiParameterChars: the separator of parameters is forgotten
AnsiParameterChars_NoSemicolon == {"0", "1", "2", "3", "4", "5", "6", "7", "8", "9"}

\* [0-9;]
AnsiParameterChars == {"0", "1", "2", "3", "4", "5", "6", "7", "8", "9", ";"}

\* the end of the longest run of [0-9;] starting at i (the index after it)
RECURSIVE SkipParameters(_, _)
SkipParameters(text, i) ==
    IF i <= Len(text) /\ text[i] \in AnsiParameterChars
    THEN SkipParameters(text, i + 1)
    ELSE i

\* the index after a match of ANSI_ESCAPE_REGEX at i, or 0 when none starts there
AnsiMatchEnd(text, i) ==
    IF i + 1 <= Len(text) /\ text[i] = ANSI_ESCAPE /\ text[i + 1] = "["
    THEN LET j == SkipParameters(text, i + 2)
         IN  IF j <= Len(text) /\ text[j] = "m" THEN j + 1 ELSE 0
    ELSE 0

\* the indices the matches of ANSI_ESCAPE_REGEX cover.  A match holds one
\* escape character, its first, so no two matches overlap and the matches
\* the g flag finds from left to right are all the matches there are.
AnsiCovered(text) ==
    UNION { i..(AnsiMatchEnd(text, i) - 1) :
              i \in {k \in 1..Len(text) : AnsiMatchEnd(text, k) # 0} }

\* text[lo..hi] without the indices in dropped, in order
RECURSIVE Without(_, _, _, _)
Without(text, dropped, lo, hi) ==
    IF lo > hi THEN <<>>
    ELSE IF lo = hi THEN (IF lo \in dropped THEN <<>> ELSE <<text[lo]>>)
    ELSE LET mid == (lo + hi) \div 2
         IN  Without(text, dropped, lo, mid) \o Without(text, dropped, mid + 1, hi)

\* input.replace(ANSI_ESCAPE_REGEX, ""): one pass, every match removed
stripAnsi(text) == Without(text, AnsiCovered(text), 1, Len(text))

RECURSIVE TrimStart(_)
TrimStart(text) ==
    IF text # <<>> /\ Head(text) \in Whitespace THEN TrimStart(Tail(text)) ELSE text

RECURSIVE TrimEnd(_)
TrimEnd(text) ==
    IF text # <<>> /\ text[Len(text)] \in Whitespace
    THEN TrimEnd(SubSeq(text, 1, Len(text) - 1))
    ELSE text

\* String.prototype.trim
Trim(text) == TrimEnd(TrimStart(text))

\* the literal lit (lower case) stands at index i of the lower-cased text
LiteralAt(lowered, i, lit) ==
    /\ i + Len(lit) - 1 <= Len(lowered)
    /\ \A k \in 1..Len(lit) : lowered[i + k - 1] = lit[k]

----------------------------------------------------------------------------
(* extractRequiredUpdatesFromText and determineSemverType (index.ts)       *)

SemverTypes == {"major", "minor", "patch"}

\* /semver requires new (major|minor|patch) version/gi with its group bound to s
RequiredUpdatePhrase ==
    [s \in SemverTypes |-> Chars("semver requires new " \o s \o " version")]

\* the while loop over regex.exec adds match[1] of every match to found.
\* No suffix of the phrase is a prefix of it, so matches never overlap and
\* the loop, which resumes after each match, meets every place it matches.
MatchedGroups(lowered) ==
    {s \in SemverTypes :
        \E i \in 1..Len(lowered) : LiteralAt(lowered, i, RequiredUpdatePhrase[s])}

extractRequiredUpdatesFromText(text) ==
    MatchedGroups(LowerCased(stripAnsi(text)))

\* the index after the longest run of \s starting at i
RECURSIVE SkipWhitespace(_, _)
SkipWhitespace(text, i) ==
    IF i <= Len(text) /\ text[i] \in Whitespace
    THEN SkipWhitespace(text, i + 1)
    ELSE i

\* no, and (semver|public|api)
SuccessNo == Chars("no")
SuccessWords == {Chars("semver"), Chars("public"), Chars("api")}

\* mutant of SuccessMessage: the i flag is forgotten
SuccessMessage_CaseSensitive(text) ==
    \E i \in 1..Len(text) :
       /\ LiteralAt(text, i, SuccessNo)
       /\ LET j == SkipWhitespace(text, i + 2)
          IN  /\ j > i + 2
              /\ \E w \in SuccessWords : LiteralAt(text, j, w)

\* /no\s+(semver|public|api)/i.test(text)
SuccessMessage(text) ==
    LET lowered == LowerCased(text)
    IN  \E i \in 1..Len(lowered) :
           /\ LiteralAt(lowered, i, SuccessNo)
           /\ LET j == SkipWhitespace(lowered, i + 2)
              IN  /\ j > i + 2
                  /\ \E w \in SuccessWords : LiteralAt(lowered, j, w)

\* `${result.stdout || ""}\n${result.stderr || ""}`
Combine(stdout, stderr) == stdout \o <<"\n">> \o stderr

\* stripAnsi(...).trim() of line 345
Cleaned(res) == Trim(stripAnsi(Combine(res.stdout, res.stderr)))

Classified(type) == [kind |-> "ok", type |-> type, message |-> NoString, output |-> <<>>]
Unparseable(combined) ==
    [kind |-> "error", type |-> NoString,
     message |-> "cargo semver-checks failed to produce parseable output:\n",
     output |-> combined]

\* mutant of OutputUnparseable: the success message is not looked at
OutputUnparseable_NoSuccessCheck(status, hasUpdates, successMessage) ==
    status # 0 /\ ~hasUpdates

\* result.status !== 0 && !hasUpdates && !successMessage
OutputUnparseable(status, hasUpdates, successMessage) ==
    status # 0 /\ ~hasUpdates /\ ~successMessage

\* mutant of HighestOf: minor is looked for before major
HighestOf_MinorFirst(requiredUpdates) ==
    IF "minor" \in requiredUpdates THEN "minor"
    ELSE IF "major" \in requiredUpdates THEN "major"
    ELSE "patch"

\* the chain of has("major"), has("minor"), else "patch"
HighestOf(requiredUpdates) ==
    IF "major" \in requiredUpdates THEN "major"
    ELSE IF "minor" \in requiredUpdates THEN "minor"
    ELSE "patch"

determineSemverType(res) ==
    LET combined == Cleaned(res)
        requiredUpdates == extractRequiredUpdatesFromText(combined)
        hasUpdates == Cardinality(requiredUpdates) > 0
        successMessage == SuccessMessage(combined)
    IN  IF OutputUnparseable(res.status, hasUpdates, successMessage)
        THEN Unparseable(combined)
        ELSE Classified(HighestOf(requiredUpdates))

----------------------------------------------------------------------------
(* The checker's outputs the classifier is applied to: stdout and stderr   *)
(* are runs of fragments of cargo-semver-checks output.                    *)

\* longest stdout, in fragments
MaxFragments == 3

Fragments ==
    { Chars("semver requires new major version"),
      Chars("Semver requires new MINOR version"),
      Chars("semver requires new patch version"),
      Chars("no semver update required"),
      Chars("error: failed to build rustdoc"),
      <<ANSI_ESCAPE>> \o Chars("[1;31m"),
      <<ANSI_ESCAPE>> \o Chars("[0m") }

StderrTexts ==
    { <<>>,
      Chars("error: no such command\n"),
      Chars("     Summary No  API changes\n"),
      Chars("--- failure: semver requires new minor version ---") }

\* spawnSync's status when the process was killed by a signal (null)
NoStatus == -1
ExitStatuses == {0, 1, NoStatus}

RECURSIVE Flatten(_)
Flatten(fragments) ==
    IF fragments = <<>> THEN <<>> ELSE Head(fragments) \o Flatten(Tail(fragments))

ToolResults ==
    { [status |-> st, stdout |-> Flatten(fs), stderr |-> err] :
        st \in ExitStatuses, fs \in SeqsUpTo(Fragments, MaxFragments), err \in StderrTexts }

\* the resolver at rest: the classifier is looked at on its own
ResolverIdle ==
    /\ event = [eventName |-> "push", pull_request |-> NoPullRequest,
                workflow_run |-> NoWorkflowRun]
    /\ attempt = 1
    /\ prNumber = NoNumber
    /\ baseSha = NoString
    /\ calls = <<>>
    /\ listQuery = NoQuery
    /\ headPRs = <<>>
    /\ associatedPRs = <<>>
    /\ prData = NoString
    /\ result = NoResult

InitClassify ==
    /\ OthersIdle
    /\ tool \in ToolResults
    /\ semver = NoSemver
    /\ ResolverIdle
    /\ pc = "classify"

\* run() line 657: const semverType = determineSemverType(result)
Classify ==
    /\ pc = "classify"
    /\ semver' = determineSemverType(tool)
    /\ pc' = "classified"
    /\ UNCHANGED <<event, attempt, prNumber, baseSha, calls, listQuery, headPRs,
                   associatedPRs, prData, result, tool>>
    /\ UNCHANGED otherVars

NextClassify == Classify

SpecClassify == InitClassify /\ [][NextClassify]_vars

----------------------------------------------------------------------------
(* The classifier on coloured output (CARGO_TERM_COLOR: "always") and on   *)
(* the same output without the colour sequences.                           *)

\* longest stdout, in pieces of text and colour sequences
MaxPieces == 3

\* text the checker prints
TextPieces ==
    { Chars("semver requires new "),
      Chars("major version"),
      Chars("Semver requires new MINOR version"),
      Chars("no semver update required"),
      Chars("error: failed") }

\* ESC [ <digits and semicolons> m
ColourPieces ==
    { <<ANSI_ESCAPE>> \o Chars("[1;31m"),
      <<ANSI_ESCAPE>> \o Chars("[0m"),
      <<ANSI_ESCAPE>> \o Chars("[m") }

Pieces ==
    [colour : {FALSE}, text : TextPieces] \cup [colour : {TRUE}, text : ColourPieces]

\* the pieces printed one after the other
RECURSIVE Printed(_)
Printed(pieces) ==
    IF pieces = <<>> THEN <<>> ELSE Head(pieces).text \o Printed(Tail(pieces))

\* the pieces that are text
RECURSIVE TextOnly(_)
TextOnly(pieces) ==
    IF pieces = <<>> THEN <<>>
    ELSE IF Head(pieces).colour THEN TextOnly(Tail(pieces))
    ELSE <<Head(pieces)>> \o TextOnly(Tail(pieces))

\* stderr, coloured and not
ColouredStderrs ==
    { <<>>,
      << [colour |-> TRUE, text |-> <<ANSI_ESCAPE>> \o Chars("[1;31m")],
         [colour |-> FALSE, text |-> Chars("error")],
         [colour |-> TRUE, text |-> <<ANSI_ESCAPE>> \o Chars("[0m")],
         [colour |-> FALSE, text |-> Chars(": No ")],
         [colour |-> TRUE, text |-> <<ANSI_ESCAPE>> \o Chars("[0m")],
         [colour |-> FALSE, text |-> Chars(" public items\n")] >> }

InitAnsi ==
    /\ \E st \in {0, 1}, out \in SeqsUpTo(Pieces, MaxPieces), err \in ColouredStderrs :
          /\ tool = [status |-> st, stdout |-> Printed(out), stderr |-> Printed(err)]
          /\ plainTool = [status |-> st, stdout |-> Printed(TextOnly(out)),
                          stderr |-> Printed(TextOnly(err))]
    /\ semver = NoSemver
    /\ plainSemver = NoSemver
    /\ ResolverIdle
    /\ RetryIdle
    /\ LabelIdle
    /\ InstallIdle
    /\ RunIdle
    /\ SideIdle
    /\ pc = "coloured"

\* determineSemverType on the coloured output
ClassifyColoured ==
    /\ pc = "coloured"
    /\ semver' = determineSemverType(tool)
    /\ pc' = "plain"
    /\ UNCHANGED <<event, attempt, prNumber, baseSha, calls, listQuery, headPRs,
                   associatedPRs, prData, result, tool, plainTool, plainSemver>>
    /\ UNCHANGED <<retryVars, labelVars, installVars, runVars, sideVars>>

\* determineSemverType on the same output without colours
ClassifyPlain ==
    /\ pc = "plain"
    /\ plainSemver' = determineSemverType(plainTool)
    /\ pc' = "compared"
    /\ UNCHANGED <<event, attempt, prNumber, baseSha, calls, listQuery, headPRs,
                   associatedPRs, prData, result, tool, semver, plainTool>>
    /\ UNCHANGED <<retryVars, labelVars, installVars, runVars, sideVars>>

NextAnsi == ClassifyColoured \/ ClassifyPlain

SpecAnsi == InitAnsi /\ [][NextAnsi]_vars

----------------------------------------------------------------------------
(* withRetries around an operation that may return or throw anything       *)

\* what the operation may resolve with
OperationValues == {SkipResult("skipped"), ProceedResult(1, "sha-a")}

\* statuses of the errors the operation may reject with
OperationStatuses == {401, 403, 404, 429, 500} \cup RETRYABLE_STATUS_CODES

\* what the operation may reject with: an error with a status, or a plain Error
OperationErrors ==
    {ApiErrorResult(status) : status \in OperationStatuses}
    \cup {ErrorResult("operation failed")}

\* mutant of RetryDelay: the same delay before every retry
RetryDelay_Constant(att) == 1000

\* setTimeout(resolve, 1000 * attempt)
RetryDelay(att) == 1000 * att

\* the operation is invoked: return await operation()
Invoked(log, att) == Append(log, [attempt |-> att, fate |-> "pending", outcome |-> NoResult])

\* the invocation in flight met its fate
Outcome(log, fate, outcome) ==
    [log EXCEPT ![Len(log)].fate = fate, ![Len(log)].outcome = outcome]

InitRetry ==
    /\ RunIdle
    /\ SideIdle
    /\ AnsiIdle
    /\ RetryIdle
    /\ LabelIdle
    /\ InstallIdle
    /\ ResolverIdle
    /\ tool = NoTool
    /\ semver = NoSemver
    /\ pc = "retry"

\* withRetries is called: attempt = 1, the operation is invoked
WithRetries ==
    /\ pc = "retry"
    /\ attempt' = 1
    /\ operations' = Invoked(operations, 1)
    /\ pc' = "operation"
    /\ UNCHANGED <<event, prNumber, baseSha, calls, listQuery, headPRs, associatedPRs,
                   prData, result, tool, semver, waits>>
    /\ UNCHANGED <<ansiVars, labelVars, installVars, runVars, sideVars>>

\* the operation resolves: withRetries returns its value
OperationResolves ==
    /\ pc = "operation"
    /\ \E value \in OperationValues :
          /\ operations' = Outcome(operations, "resolved", value)
          /\ result' = value
    /\ pc' = "retried"
    /\ UNCHANGED <<event, attempt, prNumber, baseSha, calls, listQuery, headPRs,
                   associatedPRs, prData, tool, semver, waits>>
    /\ UNCHANGED <<ansiVars, labelVars, installVars, runVars, sideVars>>

\* the operation rejects: the catch clause rethrows, or warns and waits
OperationRejects ==
    /\ pc = "operation"
    /\ \E err \in OperationErrors :
          /\ operations' = Outcome(operations, "rejected", err)
          /\ IF RetryGivesUp(attempt, err)
             THEN /\ result' = err
                  /\ pc' = "retried"
                  /\ waits' = waits
             ELSE /\ result' = result
                  /\ pc' = "waiting"
                  /\ waits' = Append(waits, RetryDelay(attempt))
    /\ UNCHANGED <<event, attempt, prNumber, baseSha, calls, listQuery, headPRs,
                   associatedPRs, prData, tool, semver>>
    /\ UNCHANGED <<ansiVars, labelVars, installVars, runVars, sideVars>>

\* the delay is over: attempt += 1 and, while attempt <= maxAttempts, the
\* operation is invoked again; past the loop line 54 throws
DelayElapsed ==
    /\ pc = "waiting"
    /\ attempt' = attempt + 1
    /\ IF attempt + 1 <= MaxAttempts
       THEN /\ operations' = Invoked(operations, attempt + 1)
            /\ pc' = "operation"
            /\ result' = result
       ELSE /\ operations' = operations
            /\ pc' = "retried"
            /\ result' = ErrorResult("failed after " \o ToString(MaxAttempts) \o " attempts.")
    /\ UNCHANGED <<event, prNumber, baseSha, calls, listQuery, headPRs, associatedPRs,
                   prData, tool, semver, waits>>
    /\ UNCHANGED <<ansiVars, labelVars, installVars, runVars, sideVars>>

NextRetry ==
    \/ WithRetries
    \/ OperationResolves
    \/ OperationRejects
    \/ DelayElapsed

SpecRetry == InitRetry /\ [][NextRetry]_vars

\* withRetries is called, every invocation of the operation settles, and
\* every timer fires
RetryFairness ==
    /\ WF_vars(WithRetries)
    /\ WF_vars(OperationResolves \/ OperationRejects)
    /\ WF_vars(DelayElapsed)

SpecRetryFair == InitRetry /\ [][NextRetry]_vars /\ RetryFairness

----------------------------------------------------------------------------
(* upsertSemverLabel, removeLabelIfExists and ensureLabelExists: each       *)
(* operator is the code from one await to the next await, return or throw. *)

ListLabels == "issues.listLabelsOnIssue"
RemoveLabel == "issues.removeLabel"
GetLabel == "issues.getLabel"
CreateLabel == "issues.createLabel"
AddLabels == "issues.addLabels"

LabelApis == {ListLabels, RemoveLabel, GetLabel, CreateLabel, AddLabels}
\* the calls that change labels on the platform
LabelMutations == {RemoveLabel, CreateLabel, AddLabels}

\* upsertSemverLabel resolved (it returns nothing)
Applied == [NoResult EXCEPT !.kind = "applied"]

\* where upsertSemverLabel stops: awaiting the calls in issue (one call,
\* as every call is awaited), returning, or throwing
LabelAwait(issue, cur) ==
    [next |-> "await", issue |-> issue, cursor |-> cur, value |-> NoResult]
LabelReturn == [next |-> "return", issue |-> <<>>, cursor |-> 0, value |-> Applied]
LabelThrow(err) == [next |-> "throw", issue |-> <<>>, cursor |-> 0, value |-> err]

\* one call of the platform API: the method, the label name and, for
\* createLabel, the colour and the description
LabelCall(api, name) ==
    [api |-> api, name |-> name, color |-> NoString, description |-> NoString]

\* createLabel({ owner, repo, name, color: "ededed", description: ... })
CreateLabelCall(name) ==
    [LabelCall(CreateLabel, name) EXCEPT
        !.color = "ededed", !.description = "Semver required update"]

\* mutant of startsWith: the prefix is looked for anywhere in the name
startsWith_Anywhere(name, prefix) ==
    \E i \in 1..(Len(name) - Len(prefix) + 1) :
       SubSeq(name, i, i + Len(prefix) - 1) = prefix

\* String.prototype.startsWith
startsWith(name, prefix) ==
    Len(name) >= Len(prefix) /\ SubSeq(name, 1, Len(prefix)) = prefix

\* mutant of IsStale: the new label is not spared
IsStale_NewLabelToo(name, prefix, new) == startsWith(name, prefix)

\* label.name.startsWith(labelPrefix) && label.name !== newLabel
IsStale(name, prefix, new) == startsWith(name, prefix) /\ name # new

\* labelPrefix && labelPrefix.length > 0
PrefixGiven(prefix) == prefix # NoString /\ Len(prefix) > 0

\* the labels the for loop removes, from index from on
StaleFrom(existing, from, prefix, new) ==
    IF PrefixGiven(prefix)
    THEN {i \in from..Len(existing) : IsStale(existing[i], prefix, new)}
    ELSE {}

\* the least of a non-empty set of indices
Least(indices) == CHOOSE i \in indices : \A j \in indices : i <= j

\* mutant of RemovalsStarted: the removals are started without being awaited
RemovalsStarted_NotAwaited(existing, stale) ==
    [k \in 1..Cardinality(stale) |->
        LET i == CHOOSE i \in stale : Cardinality({j \in stale : j < i}) = k - 1
        IN  LabelCall(RemoveLabel, existing[i])]

\* await removeLabelIfExists(...): the loop starts one removal and waits for it
RemovalsStarted(existing, stale) ==
    <<LabelCall(RemoveLabel, existing[Least(stale)])>>

\* mutant of NeedsAdding: the label is added whatever the pull request has
NeedsAdding_Always(existing, new) == TRUE

\* !existingNames.has(newLabel)
NeedsAdding(existing, new) == \A i \in DOMAIN existing : existing[i] # new

\* lines 579-590 up to the await of getLabel
AfterRemovals(existing, new) ==
    IF NeedsAdding(existing, new)
    THEN LabelAwait(<<LabelCall(GetLabel, new)>>, 0)
    ELSE LabelReturn

\* lines 570-577: the for loop from index from to its next await
RemovalLoop(existing, from, prefix, new) ==
    LET stale == StaleFrom(existing, from, prefix, new)
    IN  IF stale # {}
        THEN LabelAwait(RemovalsStarted(existing, stale), Least(stale))
        ELSE AfterRemovals(existing, new)

\* lines 558-563: upsertSemverLabel from its entry to its first await
BeginUpsert == LabelAwait(<<LabelCall(ListLabels, NoString)>>, 0)

\* lines 565-577 after listLabelsOnIssue resolved with data
AfterListLabels(data, prefix, new) == RemovalLoop(data, 1, prefix, new)

\* mutant of NotFound: whatever the error, the label counts as missing
NotFound_AnyError(status) == TRUE

\* (error as { status }).status !== 404: rethrown by lines 515 and 544
NotFound(status) == status = 404

\* removeLabelIfExists after removeLabel settled, then on with the loop
AfterRemove(existing, cur, prefix, new) == RemovalLoop(existing, cur + 1, prefix, new)

\* ensureLabelExists after getLabel resolved: return, then line 582
AfterGetLabel(new) == LabelAwait(<<LabelCall(AddLabels, new)>>, 0)

\* ensureLabelExists after getLabel rejected
AfterGetLabelFailed(status, new) ==
    IF NotFound(status)
    THEN LabelAwait(<<CreateLabelCall(new)>>, 0)
    ELSE LabelThrow(ApiErrorResult(status))

\* mutant of AfterRemoveFailed: every error of removeLabel is thrown on
AfterRemoveFailed_Rethrows(status, existing, cur, prefix, new) ==
    LabelThrow(ApiErrorResult(status))

\* removeLabelIfExists after removeLabel rejected
AfterRemoveFailed(status, existing, cur, prefix, new) ==
    IF NotFound(status)
    THEN AfterRemove(existing, cur, prefix, new)
    ELSE LabelThrow(ApiErrorResult(status))

\* ensureLabelExists after createLabel resolved: return, then line 582
AfterCreateLabel(new) == LabelAwait(<<LabelCall(AddLabels, new)>>, 0)

\* line 587 after addLabels resolved
AfterAddLabels == LabelReturn

----------------------------------------------------------------------------
(* Label reconciliation as run() drives it:                                *)
(* withRetries(() => upsertSemverLabel(...)) against the platform          *)

\* most labels on the pull request at the start
MaxLabels == 3

DEFAULT_LABEL_PREFIX == "semver: "

\* the label-prefix input and the classification of a run: the default
\* prefix with each type, and a custom prefix
LabelInputs ==
    [prefix : {DEFAULT_LABEL_PREFIX}, type : SemverTypes]
    \cup {[prefix |-> "semver", type |-> "minor"]}

\* statuses a failing label call is drawn from, 404 apart
LabelFailureStatuses == {503, 403}

LabelNames ==
    {"semver: major", "semver: patch", "semver: patches", "not semver: bug"}

\* the labels a pull request may carry, in the order the platform lists them
LabelLists ==
    {list \in SeqsUpTo(LabelNames, MaxLabels) :
        \A i, j \in DOMAIN list : i # j => list[i] # list[j]}

\* the names in a list of labels
Names(list) == {list[i] : i \in DOMAIN list}

\* the platform takes a label off the pull request, puts one on
Unlabelled(list, name) == SelectSeq(list, LAMBDA n : n # name)
Labelled(list, name) == IF name \in Names(list) THEN list ELSE Append(list, name)

\* the calls started, in flight, written to the log
Started(log, issue, rnd, att) ==
    log \o [k \in 1..Len(issue) |->
               [api |-> issue[k].api, name |-> issue[k].name,
                color |-> issue[k].color, description |-> issue[k].description,
                fate |-> "pending", status |-> 0, round |-> rnd, attempt |-> att]]

\* the log once the call in flight rejected with an error of this status
Failed(log, status) ==
    [Settled(log, "rejected") EXCEPT ![Len(log)].status = status]

\* the state after the attempt att of upsertSemverLabel reached outcome o
ApplyLabel(att, log, o) ==
    /\ attempt' = att
    /\ cursor' = o.cursor
    /\ IF o.next = "await"
       THEN /\ pc' = o.issue[1].api
            /\ labelCalls' = Started(log, o.issue, round, att)
            /\ labelResult' = labelResult
       ELSE /\ labelCalls' = log
            /\ IF o.next = "return" \/ RetryGivesUp(att, o.value)
               THEN pc' = "labelled" /\ labelResult' = o.value
               ELSE pc' = "label-backoff" /\ labelResult' = labelResult

\* the label the run computed: `${labelPrefix}${semverType}`
LabelFor(prefix, type) == prefix \o type

InitLabel ==
    /\ RunIdle
    /\ SideIdle
    /\ AnsiIdle
    /\ RetryIdle
    /\ InstallIdle
    /\ ResolverIdle
    /\ tool = NoTool
    /\ semver = NoSemver
    /\ pc = "upsert"
    /\ \E input \in LabelInputs :
          /\ labelPrefix = input.prefix
          /\ newLabel = LabelFor(input.prefix, input.type)
    /\ prLabels \in LabelLists
    /\ repoLabels \in {Names(prLabels), Names(prLabels) \cup {newLabel}}
    /\ startLabels = Names(prLabels)
    /\ existingLabels = <<>>
    /\ cursor = 0
    /\ labelCalls = <<>>
    /\ labelResult = NoResult
    /\ round = 1
    /\ others = FALSE

\* what the label actions leave alone
labelFrame == <<event, prNumber, baseSha, calls, listQuery, headPRs, associatedPRs,
                prData, result, tool, semver, ansiVars, retryVars, sideVars, installVars,
                runVars, labelPrefix, newLabel>>

\* run() calls withRetries: the first attempt runs to its first await
Upsert ==
    /\ pc = "upsert"
    /\ ApplyLabel(1, labelCalls, BeginUpsert)
    /\ UNCHANGED <<labelFrame, prLabels, repoLabels, existingLabels, startLabels,
                   round, others>>

\* listLabelsOnIssue resolves with the labels of the pull request
ListLabelsReturns ==
    /\ pc = ListLabels
    /\ existingLabels' = prLabels
    /\ ApplyLabel(attempt, Settled(labelCalls, "resolved"),
                  AfterListLabels(prLabels, labelPrefix, newLabel))
    /\ UNCHANGED <<labelFrame, prLabels, repoLabels, startLabels, round, others>>

\* removeLabel resolves: the label is off the pull request
RemoveLabelReturns ==
    /\ pc = RemoveLabel
    /\ existingLabels[cursor] \in Names(prLabels)
    /\ prLabels' = Unlabelled(prLabels, existingLabels[cursor])
    /\ ApplyLabel(attempt, Settled(labelCalls, "resolved"),
                  AfterRemove(existingLabels, cursor, labelPrefix, newLabel))
    /\ UNCHANGED <<labelFrame, repoLabels, existingLabels, startLabels, round, others>>

\* removeLabel rejects with 404: the label is not on the pull request any more
RemoveLabelNotFound ==
    /\ pc = RemoveLabel
    /\ existingLabels[cursor] \notin Names(prLabels)
    /\ ApplyLabel(attempt, Failed(labelCalls, 404),
                  AfterRemoveFailed(404, existingLabels, cursor, labelPrefix, newLabel))
    /\ UNCHANGED <<labelFrame, prLabels, repoLabels, existingLabels, startLabels,
                   round, others>>

\* getLabel resolves: the repository defines the label
GetLabelReturns ==
    /\ pc = GetLabel
    /\ newLabel \in repoLabels
    /\ ApplyLabel(attempt, Settled(labelCalls, "resolved"), AfterGetLabel(newLabel))
    /\ UNCHANGED <<labelFrame, prLabels, repoLabels, existingLabels, startLabels,
                   round, others>>

\* getLabel rejects with 404: the repository does not define the label
GetLabelNotFound ==
    /\ pc = GetLabel
    /\ newLabel \notin repoLabels
    /\ ApplyLabel(attempt, Failed(labelCalls, 404),
                  AfterGetLabelFailed(404, newLabel))
    /\ UNCHANGED <<labelFrame, prLabels, repoLabels, existingLabels, startLabels,
                   round, others>>

\* createLabel resolves: the repository defines the label from now on
CreateLabelReturns ==
    /\ pc = CreateLabel
    /\ newLabel \notin repoLabels
    /\ repoLabels' = repoLabels \cup {newLabel}
    /\ ApplyLabel(attempt, Settled(labelCalls, "resolved"), AfterCreateLabel(newLabel))
    /\ UNCHANGED <<labelFrame, prLabels, existingLabels, startLabels, round, others>>

\* addLabels resolves: the label is on the pull request
AddLabelsReturns ==
    /\ pc = AddLabels
    /\ prLabels' = Labelled(prLabels, newLabel)
    /\ repoLabels' = repoLabels \cup {newLabel}
    /\ ApplyLabel(attempt, Settled(labelCalls, "resolved"), AfterAddLabels)
    /\ UNCHANGED <<labelFrame, existingLabels, startLabels, round, others>>

\* what the platform holds after a call that failed: a call answered with a
\* server-side error may have been carried out all the same
AfterFailedCall(api, name, done) ==
    [pr   |-> IF ~done THEN prLabels
              ELSE IF api = RemoveLabel THEN Unlabelled(prLabels, name)
              ELSE IF api = AddLabels THEN Labelled(prLabels, name)
              ELSE prLabels,
     repo |-> IF done /\ api \in {CreateLabel, AddLabels}
              THEN repoLabels \cup {name} ELSE repoLabels]

\* the label call in flight rejects with a status other than 404
LabelCallFails ==
    /\ pc \in LabelApis
    /\ \E status \in LabelFailureStatuses, done \in BOOLEAN :
          /\ done => pc \in LabelMutations /\ status \in RETRYABLE_STATUS_CODES
          /\ LET call == labelCalls[Len(labelCalls)]
                 after == AfterFailedCall(call.api, call.name, done)
             IN  /\ prLabels' = after.pr
                 /\ repoLabels' = after.repo
          /\ ApplyLabel(attempt, Failed(labelCalls, status),
                        IF pc = RemoveLabel
                        THEN AfterRemoveFailed(status, existingLabels, cursor,
                                               labelPrefix, newLabel)
                        ELSE IF pc = GetLabel
                             THEN AfterGetLabelFailed(status, newLabel)
                             ELSE LabelThrow(ApiErrorResult(status)))
    /\ UNCHANGED <<labelFrame, existingLabels, startLabels, round, others>>

\* mutant of LabelBackoffElapsed: the next attempt goes on from the labels
\* the attempt before it has read
LabelBackoffElapsed_NoRead ==
    /\ pc = "label-backoff"
    /\ ApplyLabel(attempt + 1, labelCalls,
                  AfterListLabels(existingLabels, labelPrefix, newLabel))
    /\ UNCHANGED <<labelFrame, prLabels, repoLabels, existingLabels, startLabels,
                   round, others>>

\* the wait of withRetries is over: the next attempt runs to its first await
LabelBackoffElapsed ==
    /\ pc = "label-backoff"
    /\ existingLabels' = <<>>
    /\ ApplyLabel(attempt + 1, labelCalls, BeginUpsert)
    /\ UNCHANGED <<labelFrame, prLabels, repoLabels, startLabels, round, others>>

\* somebody else takes a label off the pull request while a removal is in flight
SomeoneRemovesLabel ==
    /\ pc = RemoveLabel
    /\ ~others
    /\ \E name \in Names(prLabels) : prLabels' = Unlabelled(prLabels, name)
    /\ others' = TRUE
    /\ UNCHANGED <<labelFrame, pc, attempt, repoLabels, existingLabels, cursor,
                   labelCalls, labelResult, startLabels, round>>

\* the workflow runs once more with the same inputs, on the labels the first
\* run left: the same label is computed and reconciled again
RunAgain ==
    /\ pc = "labelled"
    /\ labelResult = Applied
    /\ round = 1
    /\ round' = 2
    /\ startLabels' = Names(prLabels)
    /\ existingLabels' = <<>>
    /\ labelResult' = NoResult
    /\ pc' = "upsert"
    /\ UNCHANGED <<labelFrame, attempt, prLabels, repoLabels, cursor, labelCalls, others>>

NextLabel ==
    \/ Upsert
    \/ ListLabelsReturns
    \/ RemoveLabelReturns
    \/ RemoveLabelNotFound
    \/ GetLabelReturns
    \/ GetLabelNotFound
    \/ CreateLabelReturns
    \/ AddLabelsReturns
    \/ LabelCallFails
    \/ LabelBackoffElapsed
    \/ SomeoneRemovesLabel
    \/ RunAgain

SpecLabel == InitLabel /\ [][NextLabel]_vars

----------------------------------------------------------------------------
(* installCargoSemverChecks, installFromRelease, getLatestVersion, httpsGet *)
(* and installWithCargo: each operator is the code from one await to the   *)
(* next await, return or throw; the commands run in between are            *)
(* synchronous, their exit statuses are inputs of the stretch.             *)

DEFAULT_CARGO_SEMVER_CHECKS_VERSION == "latest"
GITHUB_RELEASES_BASE == "https://github.com/obi1kenobi/cargo-semver-checks/releases"

LatestRequest == "https.latest"
DownloadRequest == "https.download"
NetworkOperations == {LatestRequest, DownloadRequest}

\* where installCargoSemverChecks stops: awaiting a request, returning
\* with the checker installed somehow, or throwing
InstallAwait(op, url, caught) ==
    [next |-> "await", op |-> op, url |-> url, how |-> "none",
     caught |-> caught, value |-> NoResult, ran |-> <<>>]
InstallReturn(how, caught) ==
    [next |-> "return", op |-> NoString, url |-> NoString, how |-> how,
     caught |-> caught, value |-> NoResult, ran |-> <<>>]
InstallThrow(err, caught) ==
    [next |-> "throw", op |-> NoString, url |-> NoString, how |-> "none",
     caught |-> caught, value |-> err, ran |-> <<>>]

\* the commands runCommand is called with
GitCatFile == "git cat-file"
GitFetch == "git fetch"
CargoVersion == "cargo --version"
CargoInstall == "cargo install"
Tar == "tar"
CargoSemverChecks == "cargo semver-checks"

\* the stretch of code ending in o began by running these commands
Ran(cmds, o) == [o EXCEPT !.ran = cmds \o @]

\* installWithCargo: cargo install exited with status, having printed output
installWithCargo(status, output, caught) ==
    Ran(<<CargoInstall>>,
        IF status # 0
        THEN InstallThrow(ErrorResult("cargo-semver-checks install failed: " \o output),
                          caught)
        ELSE InstallReturn("cargo", caught))

\* mutant of FallsBack: the error of installFromRelease is not caught
FallsBack_Never(err) == FALSE

\* catch (error) of line 256: whatever installFromRelease threw is caught
FallsBack(err) == TRUE

\* lines 256-265: installFromRelease threw err; warn and install with cargo
AfterReleaseFailed(err, cargoStatus, cargoOutput) ==
    IF FallsBack(err)
    THEN installWithCargo(cargoStatus, cargoOutput, err)
    ELSE InstallThrow(err, NoResult)

\* resolvedVersion.startsWith("v") ? resolvedVersion : `v${resolvedVersion}`
VersionTag(resolved) ==
    IF startsWith(resolved, "v") THEN resolved ELSE "v" \o resolved

\* lines 173-177, on Linux: the URL of the release archive
DownloadUrl(resolved, target) ==
    GITHUB_RELEASES_BASE \o "/download/" \o VersionTag(resolved)
    \o "/cargo-semver-checks-" \o target \o ".tar.gz"

LatestUrl == GITHUB_RELEASES_BASE \o "/latest"

\* lines 173-180 up to the await of httpsGet
Download(resolved, target) ==
    InstallAwait(DownloadRequest, DownloadUrl(resolved, target), NoResult)

\* installFromRelease from its entry to its first await
installFromRelease(ver, target) ==
    IF ver = DEFAULT_CARGO_SEMVER_CHECKS_VERSION
    THEN InstallAwait(LatestRequest, LatestUrl, NoResult)
    ELSE Download(ver, target)

\* installCargoSemverChecks from its entry to its first await
BeginInstall(ver, release, target, cargoCheck, cargoStatus, cargoOutput) ==
    Ran(<<CargoVersion>>,
        IF cargoCheck # 0
        THEN InstallThrow(ErrorResult("cargo is not available in PATH."), NoResult)
        ELSE IF release /\ target # NoString
             THEN installFromRelease(ver, target)
             ELSE installWithCargo(cargoStatus, cargoOutput, NoResult))

\* statusCode >= 300 && statusCode < 400 && headers.location
Redirected(code, location) == code >= 300 /\ code < 400 /\ location # NoString

\* the tag of location.match(/\/tag\/v?(.+)$/), "" when it does not match
TagOf(location) ==
    IF \E i \in 1..Len(location) :
          /\ i + 5 <= Len(location)
          /\ SubSeq(location, i, i + 4) = "/tag/"
    THEN LET i == CHOOSE i \in 1..Len(location) :
                      /\ i + 5 <= Len(location)
                      /\ SubSeq(location, i, i + 4) = "/tag/"
                      /\ \A j \in 1..(i - 1) : SubSeq(location, j, j + 4) # "/tag/"
             rest == SubSeq(location, i + 5, Len(location))
         IN  IF Len(rest) > 1 /\ SubSeq(rest, 1, 1) = "v"
             THEN SubSeq(rest, 2, Len(rest))
             ELSE rest
    ELSE NoString

\* getLatestVersion after the response came, then on to line 180
AfterLatest(code, location, target, cargoStatus, cargoOutput) ==
    IF Redirected(code, location) /\ TagOf(location) # NoString
    THEN Download(TagOf(location), target)
    ELSE AfterReleaseFailed(ErrorResult("Failed to determine latest version"),
                            cargoStatus, cargoOutput)

\* mutant of HttpRejects: only client errors are refused
HttpRejects_ClientErrors(code) == code >= 400 /\ code < 500

\* statusCode !== 200
HttpRejects(code) == code # 200

\* lines 182-214, on Linux, after the archive was downloaded
Extract(tarStatus, tarOutput, cargoStatus, cargoOutput) ==
    Ran(<<Tar>>,
        IF tarStatus # 0
        THEN AfterReleaseFailed(ErrorResult("Failed to extract tarball: " \o tarOutput),
                                cargoStatus, cargoOutput)
        ELSE InstallReturn("release", NoResult))

\* httpsGet after the response came, then on with installFromRelease
AfterDownload(code, location, url, tarStatus, tarOutput, cargoStatus, cargoOutput) ==
    IF Redirected(code, location)
    THEN InstallAwait(DownloadRequest, location, NoResult)
    ELSE IF HttpRejects(code)
         THEN AfterReleaseFailed(ErrorResult("HTTP " \o ToString(code) \o " for " \o url),
                                 cargoStatus, cargoOutput)
         ELSE Extract(tarStatus, tarOutput, cargoStatus, cargoOutput)

\* request.on("error", reject): the request failed on the network
AfterRequestError(message, cargoStatus, cargoOutput) ==
    AfterReleaseFailed(ErrorResult(message), cargoStatus, cargoOutput)

----------------------------------------------------------------------------
(* The installation as run() awaits it *)

\* most redirects a download is sent through
MaxRedirects == 2

Versions == {DEFAULT_CARGO_SEMVER_CHECKS_VERSION, "0.30.0"}
TargetTriples == {"x86_64-unknown-linux-gnu", NoString}

\* exit statuses and outputs of cargo and tar
CommandStatuses == {0, 101}
CargoOutputs == {"error: could not compile"}
TarOutputs == {"tar: Unexpected EOF"}

\* status codes of the answers to a request, and where they send it
HttpCodes == {200, 302, 404} \cup RETRYABLE_STATUS_CODES
LatestLocations ==
    {GITHUB_RELEASES_BASE \o "/tag/v0.31.0", GITHUB_RELEASES_BASE, NoString}
DownloadLocations == {"https://objects.githubusercontent.com/archive", NoString}
NetworkErrors == {"read ECONNRESET"}

\* the requests a download has made so far count its redirects
Redirects(log) ==
    Cardinality({i \in DOMAIN log : log[i].op = DownloadRequest /\ log[i].code = 302})

\* the request in flight met its fate
Answered(log, fate, code) ==
    [log EXCEPT ![Len(log)].fate = fate, ![Len(log)].code = code]

\* the state after installCargoSemverChecks reached outcome o
ApplyInstall(log, o) ==
    /\ releaseError' = (IF o.caught # NoResult THEN o.caught ELSE releaseError)
    /\ commands' = commands \o o.ran
    /\ IF o.next = "await"
       THEN /\ pc' = o.op
            /\ requests' = Append(log, [op |-> o.op, url |-> o.url,
                                         fate |-> "pending", code |-> 0])
            /\ installed' = installed
            /\ installError' = installError
       ELSE /\ pc' = "installed"
            /\ requests' = log
            /\ installed' = o.how
            /\ installError' = o.value

InitInstall ==
    /\ RunIdle
    /\ SideIdle
    /\ AnsiIdle
    /\ RetryIdle
    /\ LabelIdle
    /\ ResolverIdle
    /\ tool = NoTool
    /\ semver = NoSemver
    /\ pc = "install"
    /\ version \in Versions
    /\ useReleaseBinary \in BOOLEAN
    /\ triple \in TargetTriples
    /\ requests = <<>>
    /\ installed = "none"
    /\ releaseError = NoResult
    /\ installError = NoResult
    /\ commands = <<>>

\* what the installation leaves alone
installFrame == <<event, attempt, prNumber, baseSha, calls, listQuery, headPRs,
                  associatedPRs, prData, result, tool, semver, ansiVars, retryVars, sideVars,
                  labelVars, runVars, version, useReleaseBinary, triple>>

\* run() line 645: installCargoSemverChecks runs to its first await
Install ==
    /\ pc = "install"
    /\ \E cargoCheck \in CommandStatuses, cargoStatus \in CommandStatuses,
          cargoOutput \in CargoOutputs :
          ApplyInstall(requests, BeginInstall(version, useReleaseBinary, triple,
                                              cargoCheck, cargoStatus, cargoOutput))
    /\ UNCHANGED installFrame

\* the answer to the request of getLatestVersion comes
LatestAnswered ==
    /\ pc = LatestRequest
    /\ \E code \in HttpCodes, location \in LatestLocations,
          cargoStatus \in CommandStatuses, cargoOutput \in CargoOutputs :
          ApplyInstall(Answered(requests,
                                IF Redirected(code, location) /\ TagOf(location) # NoString
                                THEN "resolved" ELSE "rejected", code),
                       AfterLatest(code, location, triple, cargoStatus, cargoOutput))
    /\ UNCHANGED installFrame

\* the answer to a request of httpsGet comes
DownloadAnswered ==
    /\ pc = DownloadRequest
    /\ \E code \in HttpCodes, location \in DownloadLocations,
          tarStatus \in CommandStatuses, tarOutput \in TarOutputs,
          cargoStatus \in CommandStatuses, cargoOutput \in CargoOutputs :
          /\ Redirected(code, location) => Redirects(requests) < MaxRedirects
          /\ ApplyInstall(Answered(requests,
                                   IF Redirected(code, location) \/ ~HttpRejects(code)
                                   THEN "resolved" ELSE "rejected", code),
                          AfterDownload(code, location, requests[Len(requests)].url,
                                        tarStatus, tarOutput, cargoStatus, cargoOutput))
    /\ UNCHANGED installFrame

\* the request in flight fails on the network
RequestFails ==
    /\ pc \in NetworkOperations
    /\ \E message \in NetworkErrors,
          cargoStatus \in CommandStatuses, cargoOutput \in CargoOutputs :
          ApplyInstall(Answered(requests, "rejected", 0),
                       AfterRequestError(message, cargoStatus, cargoOutput))
    /\ UNCHANGED installFrame

NextInstall ==
    \/ Install
    \/ LatestAnswered
    \/ DownloadAnswered
    \/ RequestFails

SpecInstall == InitInstall /\ [][NextInstall]_vars

----------------------------------------------------------------------------
(* run(): context resolution, the base commit, the installation, the       *)
(* checker, classification and label reconciliation, in that order, and    *)
(* the catch clause every error ends in.                                   *)

\* String.prototype.includes
includes(text, lit) == \E i \in 1..Len(text) : LiteralAt(text, i, lit)

\* a message that was recorded
Message(text) == [set |-> TRUE, message |-> text]

\* error.message of an error of the resolver, the installation or a label call
ErrorText(err) == Chars(err.message)

\* error.message of the error of determineSemverType: the text goes with it
UnparseableText(sem) == Chars(sem.message) \o sem.output

\* !message.includes("EPIPE") does not hold: the error is not reported
Ignored(message) == includes(message, Chars("EPIPE"))

\* lines 669-679: the catch clause of run()
Caught(message) ==
    /\ thrown' = Message(message)
    /\ failure' = (IF ~Ignored(message) THEN Message(message) ELSE failure)
    /\ pc' = "ended"

\* mutant of ensureGitShaAvailable: what git fetch exits with is not read
ensureGitShaAvailable_FetchNotChecked(sha, check, fetched, fetchOutput) == NoResult

\* ensureGitShaAvailable: cat-file exited with check, fetch with fetched;
\* the error it throws, NoResult when it returns
ensureGitShaAvailable(sha, check, fetched, fetchOutput) ==
    IF check = 0
    THEN NoResult
    ELSE IF fetched # 0
         THEN ErrorResult("Failed to fetch base SHA " \o sha \o ": " \o fetchOutput)
         ELSE NoResult

\* mutant of Skipped: the skip of the resolver is not looked at
Skipped_Never(context) == FALSE

\* if (prContext.skip): run() returns at line 615
Skipped(context) == context.kind = "skip"

\* what the commands of ensureGitShaAvailable exited with
GitExits(check, fetched) == IF check = 0 THEN <<check>> ELSE <<check, fetched>>

\* the commands ensureGitShaAvailable runs: git fetch when cat-file fails
GitCommands(check) ==
    IF check = 0 THEN <<GitCatFile>> ELSE <<GitCatFile, GitFetch>>

\* mutant of ClassificationThrew: the error of the classifier is lost
ClassificationThrew_Never(sem) == FALSE

\* determineSemverType threw (line 353): run() goes no further
ClassificationThrew(sem) == sem.kind = "error"

\* what git fetch prints when it fails
GitOutputs == {"fatal: remote error: upload-pack: not our ref"}
GitStatuses == {0, 128}

\* the events run() is looked at with
PullRequestEvent(n, sha) ==
    [eventName |-> "pull_request",
     pull_request |-> [present |-> TRUE, number |-> n, base |-> sha],
     workflow_run |-> NoWorkflowRun]
WorkflowRunEvent(conclusion, prs, login, branch, sha) ==
    [eventName |-> "workflow_run", pull_request |-> NoPullRequest,
     workflow_run |-> [present |-> TRUE, conclusion |-> conclusion, pull_requests |-> prs,
                       owner_login |-> login, owner_name |-> NoString,
                       head_branch |-> branch, head_sha |-> sha]]
\* the event whose resolution may take all three lookups
BranchEvent == WorkflowRunEvent("success", <<>>, "octo", "feature", "sha-h")

RunEvents ==
    { PullRequestEvent(1, "sha-a"),
      PullRequestEvent(1, NoString),
      [eventName |-> "pull_request", pull_request |-> NoPullRequest,
       workflow_run |-> NoWorkflowRun],
      [eventName |-> "push", pull_request |-> NoPullRequest,
       workflow_run |-> NoWorkflowRun],
      WorkflowRunEvent("failure", <<>>, "octo", "feature", "sha-h"),
      WorkflowRunEvent("success", <<[number |-> 1, base |-> NoString]>>,
                       "octo", "feature", "sha-h"),
      WorkflowRunEvent("success", <<[number |-> 1, base |-> "sha-a"],
                                    [number |-> 2, base |-> "sha-b"]>>,
                       "octo", "feature", "sha-h"),
      WorkflowRunEvent("success", <<>>, NoString, NoString, NoString),
      BranchEvent }

\* the labels the pull request carries when run() starts
RunLabelLists ==
    { <<"semver: patch">>,
      <<"semver: major", "semver: patches", "not semver: bug">> }

\* the runs looked at: every event with either way of installing and either
\* list of labels, the event of the three lookups with cargo install only
RunInputs ==
    [event : RunEvents \ {BranchEvent}, release : BOOLEAN, labels : RunLabelLists]
    \cup [event : {BranchEvent}, release : {FALSE},
          labels : {<<"semver: major", "semver: patches", "not semver: bug">>}]

\* what the checker exits with and prints
RunToolResults ==
    { [status |-> 0, stdout |-> <<>>,
       stderr |-> Chars("     Summary no semver update required\n")],
      [status |-> 1, stderr |-> <<>>,
       stdout |-> <<ANSI_ESCAPE>> \o Chars("[1;31m--- failure: semver requires new major version")
                  \o <<ANSI_ESCAPE>> \o Chars("[0m\n")],
      [status |-> 101, stdout |-> <<>>,
       stderr |-> Chars("error: failed to build rustdoc\n")],
      [status |-> 101, stdout |-> <<>>,
       stderr |-> Chars("error[E0425]: cannot find value EPIPE in this scope\n")] }

\* runCommand throws when the command could not be spawned (line 68)
SpawnError ==
    ErrorResult("Failed to run \"cargo semver-checks\": spawnSync cargo ENOENT")

InitRun ==
    /\ AnsiIdle
    /\ RetryIdle
    /\ RunIdle
    /\ SideIdle
    /\ tool = NoTool
    /\ semver = NoSemver
    /\ \E input \in RunInputs :
          /\ event = input.event
          /\ useReleaseBinary = input.release
          /\ prLabels = input.labels
    /\ pc = "start"
    /\ attempt = 1
    /\ prNumber = NoNumber
    /\ baseSha = NoString
    /\ calls = <<>>
    /\ listQuery = NoQuery
    /\ headPRs = <<>>
    /\ associatedPRs = <<>>
    /\ prData = NoString
    /\ result = NoResult
    /\ labelPrefix = DEFAULT_LABEL_PREFIX
    /\ newLabel = NoString
    /\ repoLabels = Names(prLabels)
    /\ startLabels = Names(prLabels)
    /\ existingLabels = <<>>
    /\ cursor = 0
    /\ labelCalls = <<>>
    /\ labelResult = NoResult
    /\ round = 1
    /\ others = FALSE
    /\ version = DEFAULT_CARGO_SEMVER_CHECKS_VERSION
    /\ triple = "x86_64-unknown-linux-gnu"
    /\ requests = <<>>
    /\ installed = "none"
    /\ releaseError = NoResult
    /\ installError = NoResult
    /\ commands = <<>>

\* lines 613-645: withRetries(resolvePrContext) settled; on a Proceed the
\* base commit is made available and the installation runs to its first await
RunAfterResolve ==
    /\ pc = "done"
    /\ \/ /\ result.kind = "error"
          /\ Caught(ErrorText(result))
          /\ UNCHANGED <<requests, installed, releaseError, installError, commands,
                         gitStatuses>>
       \/ /\ result.kind # "error"
          /\ Skipped(result)
          /\ pc' = "ended"
          /\ UNCHANGED <<thrown, failure, requests, installed, releaseError, installError,
                         commands, gitStatuses>>
       \/ /\ result.kind # "error"
          /\ ~Skipped(result)
          /\ \E check \in GitStatuses, fetched \in GitStatuses, fetchOutput \in GitOutputs,
                cargoCheck \in CommandStatuses, cargoStatus \in CommandStatuses,
                cargoOutput \in CargoOutputs :
                LET failed == ensureGitShaAvailable(result.baseSha, check, fetched,
                                                    fetchOutput)
                IN  /\ gitStatuses' = GitExits(check, fetched)
                    /\ IF failed # NoResult
                       THEN /\ Caught(ErrorText(failed))
                            /\ commands' = commands \o GitCommands(check)
                            /\ UNCHANGED <<requests, installed, releaseError, installError>>
                       ELSE /\ ApplyInstall(requests,
                                            Ran(GitCommands(check),
                                                BeginInstall(version, useReleaseBinary,
                                                             triple, cargoCheck, cargoStatus,
                                                             cargoOutput)))
                            /\ UNCHANGED <<thrown, failure>>
    /\ UNCHANGED <<event, attempt, prNumber, baseSha, calls, listQuery, headPRs,
                   associatedPRs, prData, result, tool, semver, ansiVars, retryVars, sideVars,
                   labelVars, version, useReleaseBinary, triple, semverOutput>>

\* lines 645-665: installCargoSemverChecks settled; the checker is run, its
\* output classified, and upsertSemverLabel runs to its first await
RunChecker ==
    /\ pc = "installed"
    /\ \/ /\ installError # NoResult
          /\ Caught(ErrorText(installError))
          /\ UNCHANGED <<tool, semver, newLabel, attempt, cursor, labelCalls, labelResult,
                         commands>>
       \/ /\ installError = NoResult
          /\ commands' = Append(commands, CargoSemverChecks)
          /\ Caught(ErrorText(SpawnError))
          /\ UNCHANGED <<tool, semver, newLabel, attempt, cursor, labelCalls, labelResult>>
       \/ /\ installError = NoResult
          /\ commands' = Append(commands, CargoSemverChecks)
          /\ \E res \in RunToolResults :
                LET sem == determineSemverType(res)
                IN  /\ tool' = res
                    /\ semver' = sem
                    /\ IF ClassificationThrew(sem)
                       THEN /\ Caught(UnparseableText(sem))
                            /\ UNCHANGED <<newLabel, attempt, cursor, labelCalls, labelResult>>
                       ELSE /\ newLabel' = LabelFor(labelPrefix, sem.type)
                            /\ ApplyLabel(1, labelCalls, BeginUpsert)
                            /\ UNCHANGED <<thrown, failure>>
    /\ UNCHANGED <<event, prNumber, baseSha, calls, listQuery, headPRs, associatedPRs,
                   prData, result, ansiVars, retryVars, sideVars, semverOutput,
                   gitStatuses, version, useReleaseBinary, triple, requests, installed, releaseError,
                   installError,
                   labelPrefix, prLabels, repoLabels, existingLabels, startLabels,
                   round, others>>

\* the RequestError of a label call whose connection broke: status 500, the
\* message that of the socket error
BrokenConnection ==
    [NoResult EXCEPT !.kind = "error", !.message = "write EPIPE", !.status = 500]

\* the label call in flight never reaches the platform: the connection
\* breaks, the call rejects, and the error, not a 404, leaves the attempt
LabelCallBreaks ==
    /\ pc \in LabelApis
    /\ ~NotFound(BrokenConnection.status)
    /\ ApplyLabel(attempt, Failed(labelCalls, BrokenConnection.status),
                  LabelThrow(BrokenConnection))
    /\ UNCHANGED <<labelFrame, prLabels, repoLabels, existingLabels, startLabels,
                   round, others>>

\* mutant of RunAfterLabel: the output is set before the labels are awaited
RunAfterLabel_OutputFirst ==
    /\ pc = "labelled"
    /\ semverOutput' = semver.type
    /\ IF labelResult = Applied
       THEN /\ pc' = "ended"
            /\ UNCHANGED <<thrown, failure>>
       ELSE Caught(ErrorText(labelResult))
    /\ UNCHANGED <<event, attempt, prNumber, baseSha, calls, listQuery, headPRs,
                   associatedPRs, prData, result, tool, semver, ansiVars, retryVars, sideVars,
                   labelVars, installVars, gitStatuses>>

\* lines 666-668: withRetries(upsertSemverLabel) settled
RunAfterLabel ==
    /\ pc = "labelled"
    /\ IF labelResult = Applied
       THEN /\ semverOutput' = semver.type
            /\ pc' = "ended"
            /\ UNCHANGED <<thrown, failure>>
       ELSE /\ Caught(ErrorText(labelResult))
            /\ semverOutput' = semverOutput
    /\ UNCHANGED <<event, attempt, prNumber, baseSha, calls, listQuery, headPRs,
                   associatedPRs, prData, result, tool, semver, ansiVars, retryVars, sideVars,
                   labelVars, installVars, gitStatuses>>

NextRun ==
    \/ Resolve
    \/ PullsListReturns
    \/ CommitLookupReturns
    \/ PullsGetReturns
    \/ LookupFails
    \/ BackoffElapsed
    \/ RunAfterResolve
    \/ LatestAnswered
    \/ DownloadAnswered
    \/ RequestFails
    \/ RunChecker
    \/ ListLabelsReturns
    \/ RemoveLabelReturns
    \/ GetLabelReturns
    \/ GetLabelNotFound
    \/ CreateLabelReturns
    \/ AddLabelsReturns
    \/ LabelCallFails
    \/ LabelCallBreaks
    \/ LabelBackoffElapsed
    \/ RunAfterLabel

SpecRun == InitRun /\ [][NextRun]_vars

----------------------------------------------------------------------------
(* runSemverChecks: the argument list cargo is run with                    *)

\* the core variables at rest: no event looked at, nothing classified
CoreIdle == ResolverIdle /\ tool = NoTool /\ semver = NoSemver

\* mutant of UsesPackage: the package input is not looked at
UsesPackage_Never(packageName) == FALSE

\* if (packageName): -p <package>, else --workspace
UsesPackage(packageName) == packageName # NoString

\* lines 293-301: the flag of the feature group, none for an unknown group
FeatureGroupArgs(featureGroup) ==
    IF featureGroup = "all-features" THEN <<"--all-features">>
    ELSE IF featureGroup = "default-features" THEN <<"--default-features">>
    ELSE IF featureGroup = "only-explicit-features" THEN <<"--only-explicit-features">>
    ELSE <<>>

\* lines 281-309: the list args, as pushed
SemverChecksArgs(o) ==
    (IF o.toolchain # NoString THEN <<"+" \o o.toolchain>> ELSE <<>>)
    \o <<"semver-checks", "--baseline-rev", o.baseSha, "--release-type=patch">>
    \o (IF UsesPackage(o.packageName) THEN <<"-p", o.packageName>> ELSE <<"--workspace">>)
    \o FeatureGroupArgs(o.featureGroup)
    \o (IF o.features # NoString THEN <<"--features", o.features>> ELSE <<>>)
    \o (IF o.rustTarget # NoString THEN <<"--target", o.rustTarget>> ELSE <<>>)

\* the inputs of the action as run() reads them: `core.getInput(...) || ""`
SemverChecksOptions ==
    [baseSha : Shas,
     packageName : {NoString, "my-crate"},
     toolchain : {NoString, "nightly"},
     featureGroup : {NoString, "all-features", "default-features",
                     "only-explicit-features", "some-features"},
     features : {NoString, "serde,std"},
     rustTarget : {NoString, "wasm32-unknown-unknown"}]

InitArgs ==
    /\ CoreIdle
    /\ AnsiIdle
    /\ RetryIdle
    /\ LabelIdle
    /\ InstallIdle
    /\ RunIdle
    /\ StdioIdle
    /\ options \in SemverChecksOptions
    /\ args = <<>>
    /\ invocations = <<>>
    /\ updatesUsed = {}
    /\ pc = "args"

\* runSemverChecks up to runCommand("cargo", args, ...)
BuildArgs ==
    /\ pc = "args"
    /\ args' = SemverChecksArgs(options)
    /\ pc' = "built"
    /\ UNCHANGED <<event, attempt, prNumber, baseSha, calls, listQuery, headPRs,
                   associatedPRs, prData, result, tool, semver>>
    /\ UNCHANGED <<ansiVars, retryVars, labelVars, installVars, runVars, stdioVars,
                   options, invocations, updatesUsed>>

NextArgs == BuildArgs

SpecArgs == InitArgs /\ [][NextArgs]_vars

----------------------------------------------------------------------------
(* runSemverChecks of index.js, the generation that asks the checker for   *)
(* JSON output (index.js lines 70-98); index.ts runs the checker once and  *)
(* never asks for it.                                                      *)

\* the words isUnsupportedJsonFlag looks for, one of the first four needed
UnsupportedArgumentWords ==
    {Chars("unknown argument"), Chars("unexpected argument"),
     Chars("unrecognized option"), Chars("found argument")}

\* isUnsupportedJsonFlag(output): on the output in lower case
isUnsupportedJsonFlag(text) ==
    LET lowered == LowerCased(text) IN
    /\ \E words \in UnsupportedArgumentWords : includes(lowered, words)
    /\ includes(lowered, Chars("output"))
    /\ includes(lowered, Chars("format"))

\* mutant of RerunsWithoutJson: any failure of the checker is run again
RerunsWithoutJson_OnAnyFailure(res) == res.status # 0

\* result.status !== 0 && isUnsupportedJsonFlag(combined)
RerunsWithoutJson(res) == res.status # 0 /\ isUnsupportedJsonFlag(Cleaned(res))

\* runCommand('cargo', jsonArgs) and runCommand('cargo', baseArgs)
Invocation(json, res) == [json |-> json, result |-> res]

\* what the checker prints on stderr, understanding the flag or not
JsonStderrTexts ==
    { <<>>,
      Chars("error: unexpected argument '--output-format' found\n"),
      Chars("error: Found argument '--output-format' which wasn't expected\n"),
      Chars("error: unrecognized option '--output-format'\n"),
      Chars("error: unexpected argument '--baseline-rev' found\n"),
      Chars("error: failed to parse output format of rustdoc\n") }

JsonStdoutTexts == {<<>>, Chars("{\"required_update\": \"major\"}")}

JsonToolResults == [status : {0, 1, 2}, stdout : JsonStdoutTexts, stderr : JsonStderrTexts]

InitJson ==
    /\ ResolverIdle
    /\ semver = NoSemver
    /\ AnsiIdle
    /\ RetryIdle
    /\ LabelIdle
    /\ InstallIdle
    /\ RunIdle
    /\ StdioIdle
    /\ options = NoOptions
    /\ args = <<>>
    /\ tool = NoTool
    /\ invocations = <<>>
    /\ updatesUsed = {}
    /\ pc = "json"

\* runSemverChecks: the checker is run with --output-format json; it is the
\* result returned unless the flag was refused
RunWithJson ==
    /\ pc = "json"
    /\ \E res \in JsonToolResults :
          /\ invocations' = Append(invocations, Invocation(TRUE, res))
          /\ IF RerunsWithoutJson(res)
             THEN pc' = "rerun" /\ tool' = tool
             ELSE pc' = "ran" /\ tool' = res
    /\ UNCHANGED <<event, attempt, prNumber, baseSha, calls, listQuery, headPRs,
                   associatedPRs, prData, result, semver>>
    /\ UNCHANGED <<ansiVars, retryVars, labelVars, installVars, runVars, stdioVars,
                   options, args, updatesUsed>>

\* the checker is run again without the flag: this result is returned
RunWithoutJson ==
    /\ pc = "rerun"
    /\ \E res \in JsonToolResults :
          /\ invocations' = Append(invocations, Invocation(FALSE, res))
          /\ tool' = res
    /\ pc' = "ran"
    /\ UNCHANGED <<event, attempt, prNumber, baseSha, calls, listQuery, headPRs,
                   associatedPRs, prData, result, semver>>
    /\ UNCHANGED <<ansiVars, retryVars, labelVars, installVars, runVars, stdioVars,
                   options, args, updatesUsed>>

NextJson == RunWithJson \/ RunWithoutJson

SpecJson == InitJson /\ [][NextJson]_vars

----------------------------------------------------------------------------
(* src/src/index.js, the generation that asks for structured output:       *)
(* tryParseJson, extractRequiredUpdatesFromJson, its own                   *)
(* extractRequiredUpdatesFromText and determineSemverType.                 *)

\* a JSON value: a string, a number, an object or an array; the members of
\* an object go with their keys, those of an array with the empty key
Member(key, value) == [key |-> key, value |-> value]
JString(text) == [type |-> "string", text |-> text, members |-> <<>>]
JNumber(text) == [type |-> "number", text |-> text, members |-> <<>>]
JObject(members) == [type |-> "object", text |-> NoString, members |-> members]
JArray(values) ==
    [type |-> "array", text |-> NoString,
     members |-> [i \in DOMAIN values |-> Member(NoString, values[i])]]
\* null, which is also what tryParseJson returns for no JSON
NoJson == [type |-> "null", text |-> NoString, members |-> <<>>]

\* a character of a string as JSON text writes it
Escaped(c) ==
    IF c = "\"" THEN <<"\\", "\"">>
    ELSE IF c = "\\" THEN <<"\\", "\\">>
    ELSE IF c = "\n" THEN <<"\\", "n">>
    ELSE <<c>>

\* a string as JSON text writes it
Quoted(str) ==
    <<"\"">> \o Flatten([i \in 1..Len(str) |-> Escaped(SubSeq(str, i, i))]) \o <<"\"">>

\* the parts with commas between them
Joined(parts) ==
    Flatten([i \in DOMAIN parts |-> IF i = 1 THEN parts[i] ELSE <<",">> \o parts[i]])

\* the JSON text of a value, as the checker prints it
RECURSIVE Stringify(_)
Stringify(value) ==
    CASE value.type = "string" -> Quoted(value.text)
      [] value.type = "number" -> Chars(value.text)
      [] value.type = "object" ->
            <<"{">>
            \o Joined([i \in DOMAIN value.members |->
                          Quoted(value.members[i].key) \o <<":">>
                          \o Stringify(value.members[i].value)])
            \o <<"}">>
      [] value.type = "array" ->
            <<"[">>
            \o Joined([i \in DOMAIN value.members |-> Stringify(value.members[i].value)])
            \o <<"]">>
      [] OTHER -> Chars("null")

\* most members of an object or an array of the checker's output
MaxMembers == 2

\* the strings and numbers the output holds
JsonLeaves ==
    { JString("major"), JString("Minor"), JString("none"),
      JString("required_update: patch"),
      JString("requires a major version bump"),
      JNumber("2") }

JsonKeys == {"required_update", "requiredUpdate", "message"}

\* objects of leaves, their keys differing
LeafObjects ==
    { JObject(members) :
        members \in
          { ms \in SeqsUpTo({Member(k, v) : k \in JsonKeys, v \in JsonLeaves}, MaxMembers) :
              \A i, j \in DOMAIN ms : i # j => ms[i].key # ms[j].key } }

LeafArrays == {JArray(values) : values \in SeqsUpTo(JsonLeaves, MaxMembers)}

\* objects of one leaf, and what holds one of them: a list, or a list under a key
SingleObjects == {JObject(<<Member(k, v)>>) : k \in JsonKeys, v \in JsonLeaves}
NestedValues ==
    {JArray(<<inner>>) : inner \in SingleObjects}
    \cup {JObject(<<Member(k, JArray(<<inner>>))>>) : k \in JsonKeys, inner \in SingleObjects}

\* the documents the checker may print
JsonDocuments == LeafObjects \cup LeafArrays \cup NestedValues

\* what a parser returns: the value read and the index after it, or failure
Parsed(value, next) == [ok |-> TRUE, value |-> value, next |-> next]
ParseFailed == [ok |-> FALSE, value |-> NoJson, next |-> 0]

Digits == {"0", "1", "2", "3", "4", "5", "6", "7", "8", "9"}

\* the characters of a JSON string from index i, after the opening quote,
\* up to the closing one; of the escapes, those of Escaped and \/, \t, \r
RECURSIVE ParseString(_, _, _)
ParseString(text, i, read) ==
    IF i > Len(text) THEN ParseFailed
    ELSE IF text[i] = "\"" THEN Parsed(JString(read), i + 1)
    ELSE IF text[i] = "\\"
         THEN IF i + 1 > Len(text) THEN ParseFailed
              ELSE IF text[i + 1] \in {"\"", "\\", "/"}
                   THEN ParseString(text, i + 2, read \o text[i + 1])
              ELSE IF text[i + 1] = "n" THEN ParseString(text, i + 2, read \o "\n")
              ELSE IF text[i + 1] = "t" THEN ParseString(text, i + 2, read \o "\t")
              ELSE IF text[i + 1] = "r" THEN ParseString(text, i + 2, read \o "\r")
              ELSE ParseFailed
    ELSE IF text[i] \in {"\n", "\t", "\r", ANSI_ESCAPE} THEN ParseFailed
    ELSE ParseString(text, i + 1, read \o text[i])

\* the digits of a number from index i
RECURSIVE ParseNumber(_, _, _)
ParseNumber(text, i, read) ==
    IF i <= Len(text) /\ text[i] \in Digits
    THEN ParseNumber(text, i + 1, read \o text[i])
    ELSE Parsed(JNumber(read), i)

\* the member is put into the object: a key met again keeps its place and
\* takes the later value
WithMember(members, key, value) ==
    IF \E k \in DOMAIN members : members[k].key = key
    THEN [k \in DOMAIN members |->
             IF members[k].key = key THEN Member(key, value) ELSE members[k]]
    ELSE Append(members, Member(key, value))

RECURSIVE ParseValue(_, _)
RECURSIVE ParseElements(_, _, _)
RECURSIVE ParseMembers(_, _, _)

\* the elements of an array from index i, where a value must stand
ParseElements(text, i, read) ==
    LET element == ParseValue(text, i) IN
    IF ~element.ok THEN ParseFailed
    ELSE LET j == SkipWhitespace(text, element.next)
             values == Append(read, element.value)
         IN  IF j > Len(text) THEN ParseFailed
             ELSE IF text[j] = "," THEN ParseElements(text, j + 1, values)
             ELSE IF text[j] = "]" THEN Parsed(JArray(values), j + 1)
             ELSE ParseFailed

\* the members of an object from index i, where a key must stand
ParseMembers(text, i, read) ==
    LET j == SkipWhitespace(text, i) IN
    IF j > Len(text) \/ text[j] # "\"" THEN ParseFailed
    ELSE LET key == ParseString(text, j + 1, "") IN
         IF ~key.ok THEN ParseFailed
         ELSE LET colon == SkipWhitespace(text, key.next) IN
              IF colon > Len(text) \/ text[colon] # ":" THEN ParseFailed
              ELSE LET member == ParseValue(text, colon + 1) IN
                   IF ~member.ok THEN ParseFailed
                   ELSE LET k == SkipWhitespace(text, member.next)
                            members == WithMember(read, key.value.text, member.value)
                        IN  IF k > Len(text) THEN ParseFailed
                            ELSE IF text[k] = "," THEN ParseMembers(text, k + 1, members)
                            ELSE IF text[k] = "}" THEN Parsed(JObject(members), k + 1)
                            ELSE ParseFailed

\* the JSON value that stands at index i, white space before it let pass
ParseValue(text, i) ==
    LET j == SkipWhitespace(text, i) IN
    IF j > Len(text) THEN ParseFailed
    ELSE IF text[j] = "\"" THEN ParseString(text, j + 1, "")
    ELSE IF text[j] \in Digits THEN ParseNumber(text, j, "")
    ELSE IF LiteralAt(text, j, Chars("null")) THEN Parsed(NoJson, j + 4)
    ELSE IF text[j] = "["
         THEN LET k == SkipWhitespace(text, j + 1) IN
              IF k <= Len(text) /\ text[k] = "]"
              THEN Parsed(JArray(<<>>), k + 1)
              ELSE ParseElements(text, j + 1, <<>>)
    ELSE IF text[j] = "{"
         THEN LET k == SkipWhitespace(text, j + 1) IN
              IF k <= Len(text) /\ text[k] = "}"
              THEN Parsed(JObject(<<>>), k + 1)
              ELSE ParseMembers(text, j + 1, <<>>)
    ELSE ParseFailed

\* JSON.parse inside its try: the value the whole text stands for, null
\* when it stands for none (the exception is caught)
JSONparse(text) ==
    LET whole == ParseValue(text, 1) IN
    IF whole.ok /\ SkipWhitespace(text, whole.next) > Len(text)
    THEN whole.value
    ELSE NoJson

\* tryParseJson
tryParseJson(text) ==
    LET trimmed == Trim(text) IN
    IF trimmed = <<>> THEN NoJson
    ELSE IF trimmed[1] \notin {"{", "["} THEN NoJson
    ELSE JSONparse(trimmed)

\* /required[-_]?update/i.test(key)
KeyMatches(key) ==
    LET lowered == LowerCased(Chars(key)) IN
    \E i \in 1..Len(lowered) :
       /\ LiteralAt(lowered, i, Chars("required"))
       /\ \/ LiteralAt(lowered, i + 8, Chars("update"))
          \/ /\ i + 8 <= Len(lowered)
             /\ lowered[i + 8] \in {"-", "_"}
             /\ LiteralAt(lowered, i + 9, Chars("update"))

\* the severities as the patterns spell them
SeverityChars == [s \in SemverTypes |-> Chars(s)]

\* /required[-_ ]update\s*[:=]\s*(major|minor|patch)/i matches at i, its group s
RequiredUpdateAt(lowered, i, s) ==
    /\ LiteralAt(lowered, i, Chars("required"))
    /\ i + 8 <= Len(lowered)
    /\ lowered[i + 8] \in {"-", "_", " "}
    /\ LiteralAt(lowered, i + 9, Chars("update"))
    /\ LET j == SkipWhitespace(lowered, i + 15)
       IN  /\ j <= Len(lowered)
           /\ lowered[j] \in {":", "="}
           /\ LiteralAt(lowered, SkipWhitespace(lowered, j + 1), SeverityChars[s])

\* value.match(...) of a string leaf: the group of the first match
LeafMatch(text) ==
    LET lowered == LowerCased(Chars(text))
        places == {i \in 1..Len(lowered) :
                     \E s \in SemverTypes : RequiredUpdateAt(lowered, i, s)}
    IN  IF places = {} THEN {}
        ELSE {s \in SemverTypes : RequiredUpdateAt(lowered, Least(places), s)}

\* String.prototype.toLowerCase of a string
RECURSIVE toLowerCase(_)
toLowerCase(str) ==
    IF str = "" THEN ""
    ELSE ToLower(SubSeq(str, 1, 1)) \o toLowerCase(SubSeq(str, 2, Len(str)))

\* extractRequiredUpdatesFromJson: visit(payload)
RECURSIVE extractRequiredUpdatesFromJson(_)
extractRequiredUpdatesFromJson(value) ==
    CASE value.type = "array" ->
            UNION {extractRequiredUpdatesFromJson(value.members[i].value) :
                      i \in DOMAIN value.members}
      [] value.type = "object" ->
            UNION {LET key == value.members[i].key
                       nested == value.members[i].value
                   IN  (IF KeyMatches(key) /\ nested.type = "string"
                        THEN {toLowerCase(nested.text)}
                        ELSE {})
                       \cup extractRequiredUpdatesFromJson(nested) :
                      i \in DOMAIN value.members}
      [] value.type = "string" -> LeafMatch(value.text)
      [] OTHER -> {}

\* the four patterns of fixed words, their group bound to s
RequiresPhrases ==
    [s \in SemverTypes |->
        { Chars("requires a " \o s \o " version bump"),
          Chars("requires " \o s \o " version bump"),
          Chars("requires " \o s \o " bump") }]
InParentheses == [s \in SemverTypes |-> Chars("(" \o s \o ")")]

\* /required update\s*\((major|minor|patch)\)/gi matches at i, its group s
RequiredUpdateParenthesisedAt(lowered, i, s) ==
    /\ LiteralAt(lowered, i, Chars("required update"))
    /\ LiteralAt(lowered, SkipWhitespace(lowered, i + 15), InParentheses[s])

\* extractRequiredUpdatesFromText of index.js: five patterns, each of them
\* met wherever it matches, as no match of a pattern begins inside another
extractRequiredUpdatesFromTextOfFive(text) ==
    LET lowered == LowerCased(stripAnsi(text)) IN
    {s \in SemverTypes :
        \E i \in 1..Len(lowered) :
           \/ RequiredUpdateAt(lowered, i, s)
           \/ \E phrase \in RequiresPhrases[s] : LiteralAt(lowered, i, phrase)
           \/ RequiredUpdateParenthesisedAt(lowered, i, s)}

\* jsonPayload ? extractRequiredUpdatesFromJson(jsonPayload)
\*             : extractRequiredUpdatesFromText(combined)
RequiredUpdatesOf(combined) ==
    LET jsonPayload == tryParseJson(combined) IN
    IF jsonPayload # NoJson
    THEN extractRequiredUpdatesFromJson(jsonPayload)
    ELSE extractRequiredUpdatesFromTextOfFive(combined)

\* determineSemverType of index.js, from the set it classifies from
determineSemverTypeOfJson(res, found) ==
    LET combined == Cleaned(res)
        hasUpdates == Cardinality(found) > 0
        successMessage == SuccessMessage(combined)
    IN  IF OutputUnparseable(res.status, hasUpdates, successMessage)
        THEN Unparseable(combined)
        ELSE Classified(HighestOf(found))

\* what the checker prints besides a document
PlainStdoutTexts ==
    { Chars("requires a minor version bump\n"),
      Chars("{\"required_update\":\"major\""),
      Chars("{ \"required-update\" : \"MAJOR\",\n  \"message\" : \"say \\\"hi\\\"\" }\n"),
      Chars("[warn] required update (minor)\n") }
StructuredStderrTexts == {<<>>, Chars("warning: requires a minor version bump\n")}

\* the results the classifier of index.js is applied to
StructuredResults ==
    [status : {0, 1},
     stdout : {Stringify(doc) : doc \in JsonDocuments} \cup PlainStdoutTexts,
     stderr : StructuredStderrTexts]

InitStructured ==
    /\ ResolverIdle
    /\ semver = NoSemver
    /\ AnsiIdle
    /\ RetryIdle
    /\ LabelIdle
    /\ InstallIdle
    /\ RunIdle
    /\ StdioIdle
    /\ ToolIdle
    /\ tool \in StructuredResults
    /\ pc = "structured"

\* determineSemverType(result) of index.js
ClassifyStructured ==
    /\ pc = "structured"
    /\ LET found == RequiredUpdatesOf(Cleaned(tool))
       IN  /\ updatesUsed' = found
           /\ semver' = determineSemverTypeOfJson(tool, found)
    /\ pc' = "classified"
    /\ UNCHANGED <<event, attempt, prNumber, baseSha, calls, listQuery, headPRs,
                   associatedPRs, prData, result, tool>>
    /\ UNCHANGED <<ansiVars, retryVars, labelVars, installVars, runVars, stdioVars,
                   options, args, invocations>>

NextStructured == ClassifyStructured

SpecStructured == InitStructured /\ [][NextStructured]_vars

----------------------------------------------------------------------------
(* stdio.ts: the wrapped write of stdout and stderr, the error listener of *)
(* the streams, the uncaughtException and unhandledRejection handlers, and *)
(* the catch clause of run() they stand beside.                            *)

\* most errors a process is looked at with
MaxDelivered == 3

Streams == {"stdout", "stderr"}

\* the errors that come: a broken pipe, another system error, a plain Error
BrokenPipe == [code |-> "EPIPE", message |-> "write EPIPE"]
StdioErrors ==
    {BrokenPipe,
     [code |-> "ECONNRESET", message |-> "read ECONNRESET"],
     [code |-> NoString, message |-> "Cannot read properties of undefined"]}

\* the errors a stream emits: those of the system
StreamErrors == {error \in StdioErrors : error.code # NoString}

\* mutant of isEpipe: no error is taken for a broken pipe
isEpipe_Never(error) == FALSE

\* isEpipe: (error as NodeJS.ErrnoException).code === "EPIPE"
isEpipe(error) == error.code = "EPIPE"

\* mutant of shouldSkipWrite: each stream is looked at for itself
shouldSkipWrite_PerStream(broken, stream) ==
    stream.destroyed \/ stream.writableEnded \/ ~stream.writable

\* shouldSkipWrite: what it returns, and streamBroken as it leaves it
shouldSkipWrite(broken, stream) ==
    broken \/ stream.destroyed \/ stream.writableEnded \/ ~stream.writable
BrokenAfterSkipCheck(broken, stream) ==
    broken \/ stream.destroyed \/ stream.writableEnded

\* an error came to the process this way
Delivered(log, via, s, error) ==
    Append(log, [via |-> via, stream |-> s, error |-> error])

\* a call of the wrapped write of stream s: streamBroken and the stream as
\* it found them, whether originalWrite was called, and what it returned
\* ("threw": it threw instead)
WriteCall(s, called, returned) ==
    [stream |-> s, broken |-> streamBroken, state |-> streams[s], called |-> called,
     returned |-> returned]

\* the wrapped write where originalWrite, if called, returns flushed
WrappedWrite(s, flushed) ==
    IF shouldSkipWrite(streamBroken, streams[s])
    THEN WriteCall(s, FALSE, "false")
    ELSE WriteCall(s, TRUE, flushed)

\* what the stdio actions leave alone
stdioFrame == <<event, attempt, prNumber, baseSha, calls, listQuery, headPRs,
                associatedPRs, prData, result, tool, semver, ansiVars, retryVars,
                labelVars, installVars, toolVars, semverOutput, gitStatuses>>

InitStdio ==
    /\ ResolverIdle
    /\ tool = NoTool
    /\ semver = NoSemver
    /\ AnsiIdle
    /\ RetryIdle
    /\ LabelIdle
    /\ InstallIdle
    /\ RunIdle
    /\ ToolIdle
    /\ StdioIdle
    /\ pc = "running"

\* run() writes through the wrapped write (core.info and the like): the
\* write is skipped, or the original write returns
Write ==
    /\ ~exited /\ pc = "running"
    /\ \E s \in Streams, flushed \in {"true", "false"} :
          /\ streamBroken' = BrokenAfterSkipCheck(streamBroken, streams[s])
          /\ lastWrite' = WrappedWrite(s, flushed)
    /\ UNCHANGED <<stdioFrame, pc, thrown, failure, streams, exited, exitCause, delivered>>

\* the original write throws: a broken pipe is swallowed by the wrapper,
\* anything else is thrown on to run(), whose catch clause it ends in
WriteThrows ==
    /\ ~exited /\ pc = "running"
    /\ Len(delivered) < MaxDelivered
    /\ \E s \in Streams, error \in StdioErrors :
          /\ ~shouldSkipWrite(streamBroken, streams[s])
          /\ delivered' = Delivered(delivered, "write", s, error)
          /\ IF isEpipe(error)
             THEN /\ streamBroken' = TRUE
                  /\ lastWrite' = WriteCall(s, TRUE, "false")
                  /\ UNCHANGED <<pc, thrown, failure>>
             ELSE /\ streamBroken' = streamBroken
                  /\ lastWrite' = WriteCall(s, TRUE, "threw")
                  /\ Caught(Chars(error.message))
    /\ UNCHANGED <<stdioFrame, streams, exited, exitCause>>

\* the reader of a stream goes away, or the stream is ended: it is
\* destroyed or ended, and not writable any more
StreamCloses ==
    /\ ~exited
    /\ \E s \in Streams :
          \/ /\ ~streams[s].destroyed /\ ~streams[s].writableEnded
             /\ streams' = [streams EXCEPT ![s].destroyed = TRUE, ![s].writable = FALSE]
          \/ /\ ~streams[s].destroyed /\ ~streams[s].writableEnded
             /\ streams' = [streams EXCEPT ![s].writableEnded = TRUE, ![s].writable = FALSE]
    /\ UNCHANGED <<stdioFrame, pc, thrown, failure, streamBroken, exited, exitCause,
                   delivered, lastWrite>>

\* stream.on("error", handleStreamError)
StreamError ==
    /\ ~exited
    /\ Len(delivered) < MaxDelivered
    /\ \E s \in Streams, error \in StreamErrors :
          /\ delivered' = Delivered(delivered, "error", s, error)
          /\ streamBroken' = (streamBroken \/ error.code = "EPIPE")
    /\ UNCHANGED <<stdioFrame, pc, thrown, failure, streams, exited, exitCause, lastWrite>>

\* a handler of the process: a broken pipe is noted, anything else is
\* written to stderr (through the wrapped write) and the process exits
ProcessHandler(via) ==
    /\ \E error \in StdioErrors :
          /\ delivered' = Delivered(delivered, via, NoString, error)
          /\ IF isEpipe(error)
             THEN /\ streamBroken' = TRUE
                  /\ UNCHANGED <<exited, exitCause, lastWrite>>
             ELSE /\ streamBroken' = BrokenAfterSkipCheck(streamBroken, streams["stderr"])
                  /\ \E flushed \in {"true", "false"} :
                        lastWrite' = WrappedWrite("stderr", flushed)
                  /\ exited' = TRUE
                  /\ exitCause' = error
    /\ UNCHANGED <<stdioFrame, pc, thrown, failure, streams>>

\* process.on("uncaughtException", ...)
UncaughtException ==
    /\ ~exited
    /\ Len(delivered) < MaxDelivered
    /\ ProcessHandler("uncaughtException")

\* process.on("unhandledRejection", ...)
UnhandledRejection ==
    /\ ~exited
    /\ Len(delivered) < MaxDelivered
    /\ ProcessHandler("unhandledRejection")

\* an error thrown inside run() ends in its catch clause
RunCatches ==
    /\ ~exited /\ pc = "running"
    /\ Len(delivered) < MaxDelivered
    /\ \E error \in StdioErrors :
          /\ delivered' = Delivered(delivered, "catch", NoString, error)
          /\ Caught(Chars(error.message))
    /\ UNCHANGED <<stdioFrame, streamBroken, streams, exited, exitCause, lastWrite>>

NextStdio ==
    \/ Write
    \/ WriteThrows
    \/ StreamCloses
    \/ StreamError
    \/ UncaughtException
    \/ UnhandledRejection
    \/ RunCatches

SpecStdio == InitStdio /\ [][NextStdio]_vars

----------------------------------------------------------------------------
(* What the claims speak of *)

Run == event.workflow_run

\* a workflow_run event that passed the conclusion check
SuccessfulRun ==
    event.eventName = "workflow_run" /\ Run.present /\ Run.conclusion = "success"

Called(api) == \E i \in DOMAIN calls : calls[i].api = api
Resolved(api) == \E i \in DOMAIN calls : calls[i].api = api /\ calls[i].fate = "resolved"
TimesCalled(api) == Cardinality({i \in DOMAIN calls : calls[i].api = api})

ListApi == "pulls.list"
CommitApi == "repos.listPullRequestsAssociatedWithCommit"
GetApi == "pulls.get"

Done == pc = "done"
Proceeds == Done /\ result.kind = "proceed"
\* the run failed with a plain Error carrying this message
FailsWith(message) ==
    Done /\ result.kind = "error" /\ result.status = 0 /\ result.message = message
\* the run failed because a platform call kept failing
FailsOnApi == Done /\ result.kind = "error" /\ result.status # 0

MissingBaseCommit == FailsWith("Unable to determine the PR base SHA.")
MissingHeadCommit == FailsWith("workflow_run is missing head_sha.")
AmbiguousFromHeadRef(n) ==
    FailsWith("Unable to resolve PR from head ref; found " \o ToString(n) \o ".")
AmbiguousFromCommit(n) ==
    FailsWith("Unable to resolve PR from head_sha; found " \o ToString(n) \o ".")
AmbiguousCorrelated(n) ==
    FailsWith("workflow_run must have exactly one pull request, found " \o ToString(n) \o ".")

\* C1: a workflow_run event whose conclusion is not "success" (absent
\* included) is answered Skip, the reason naming the conclusion ("unknown"
\* when absent), and no platform lookup is ever issued for it.
C1_SkipsUnsuccessfulRun ==
    (event.eventName = "workflow_run" /\ Run.present /\ Run.conclusion # "success")
    => /\ calls = <<>>
       /\ pc \in {"start", "done"}
       /\ Done => /\ result.kind = "skip"
                  /\ result.reason =
                        "workflow_run conclusion is "
                        \o (IF Run.conclusion = NoString THEN "unknown" ELSE Run.conclusion)
                        \o "; skipping semver checks."

C1_Witness ==
    /\ event.eventName = "workflow_run" /\ Run.conclusion = "failure"
    /\ Done /\ result.kind = "skip"

\* the branch lookup is possible: head owner (login or name) and head branch known
OwnerAndBranchKnown ==
    (Run.owner_login # NoString \/ Run.owner_name # NoString) /\ Run.head_branch # NoString

\* C2: a successful workflow_run with no correlated pull request and head
\* owner and branch known asks for the open pull requests of head
\* <owner>:<branch>; one answer resolves the pull request number (Proceed
\* carries it, at once when the answer carries the base commit) and the
\* commit lookup is not made; several answers are fatal, the commit lookup
\* not made either.
C2_BranchLookup ==
    (SuccessfulRun /\ Len(Run.pull_requests) = 0 /\ OwnerAndBranchKnown)
    => /\ pc # "start" =>
            /\ calls[1].api = ListApi
            /\ listQuery.state = "open"
            /\ listQuery.head =
                  (IF Run.owner_login # NoString THEN Run.owner_login ELSE Run.owner_name)
                  \o ":" \o Run.head_branch
       /\ (Resolved(ListApi) /\ Len(headPRs) = 1) =>
            /\ ~Called(CommitApi)
            /\ prNumber = headPRs[1].number
            /\ Done => Proceeds \/ MissingBaseCommit \/ FailsOnApi
            /\ Proceeds => result.prNumber = headPRs[1].number
            /\ headPRs[1].base # NoString =>
                  /\ Proceeds
                  /\ result.baseSha = headPRs[1].base
                  /\ ~Called(GetApi)
       /\ (Resolved(ListApi) /\ Len(headPRs) > 1) =>
            /\ AmbiguousFromHeadRef(Len(headPRs))
            /\ ~Called(CommitApi)
            /\ ~Called(GetApi)

C2_Witness ==
    /\ SuccessfulRun /\ Len(Run.pull_requests) = 0
    /\ Resolved(ListApi) /\ Len(headPRs) = 1
    /\ Proceeds /\ result.prNumber = headPRs[1].number

\* the pull request number is still unresolved after the branch step
UnresolvedAfterBranch ==
    /\ SuccessfulRun /\ Len(Run.pull_requests) = 0
    /\ IF OwnerAndBranchKnown
       THEN Resolved(ListApi) /\ Len(headPRs) = 0
       ELSE pc # "start"

\* C3: with the number unresolved after the branch step, a missing
\* head_sha is fatal (MissingHeadCommit) and the commit lookup is not made;
\* otherwise the commit lookup is made, one answer resolves the number
\* (Proceed carries it) and any other count is fatal.
C3_CommitLookup ==
    UnresolvedAfterBranch
    => IF Run.head_sha = NoString
       THEN MissingHeadCommit /\ ~Called(CommitApi) /\ ~Called(GetApi)
       ELSE /\ Called(CommitApi)
            /\ (Resolved(CommitApi) /\ Len(associatedPRs) = 1) =>
                  /\ prNumber = associatedPRs[1].number
                  /\ Done => Proceeds \/ MissingBaseCommit \/ FailsOnApi
                  /\ Proceeds => result.prNumber = associatedPRs[1].number
                  /\ associatedPRs[1].base # NoString =>
                        /\ Proceeds
                        /\ result.baseSha = associatedPRs[1].base
                        /\ ~Called(GetApi)
            /\ (Resolved(CommitApi) /\ Len(associatedPRs) # 1) =>
                  /\ AmbiguousFromCommit(Len(associatedPRs))
                  /\ ~Called(GetApi)

C3_Witness ==
    /\ UnresolvedAfterBranch /\ Resolved(ListApi)
    /\ Resolved(CommitApi) /\ Len(associatedPRs) = 1
    /\ Proceeds /\ result.prNumber = associatedPRs[1].number

\* C4: a successful workflow_run carrying several correlated pull requests
\* fails with AmbiguousPullRequest and no lookup is issued.
C4_SeveralCorrelated ==
    (SuccessfulRun /\ Len(Run.pull_requests) > 1)
    => /\ calls = <<>>
       /\ pc \in {"start", "done"}
       /\ Done => AmbiguousCorrelated(Len(Run.pull_requests))

C4_Witness ==
    /\ SuccessfulRun /\ Len(Run.pull_requests) > 1
    /\ Done /\ result.kind = "error"

\* C5: a successful workflow_run carrying one correlated pull request (its
\* number and base commit in the payload) is answered Proceed with that
\* number and that base commit; neither the branch lookup nor the commit
\* lookup is made for one correlated pull request.
C5_OneCorrelated ==
    (SuccessfulRun /\ Len(Run.pull_requests) = 1)
    => /\ ~Called(ListApi)
       /\ ~Called(CommitApi)
       /\ Proceeds => result.prNumber = Run.pull_requests[1].number
       /\ (pc # "start" /\ Run.pull_requests[1].number # NoNumber
                        /\ Run.pull_requests[1].base # NoString) =>
            /\ Proceeds
            /\ result.baseSha = Run.pull_requests[1].base
            /\ calls = <<>>

C5_Witness ==
    /\ SuccessfulRun /\ Len(Run.pull_requests) = 1
    /\ Proceeds
    /\ result.prNumber = Run.pull_requests[1].number
    /\ result.baseSha = Run.pull_requests[1].base

\* the base commit the payload and the lookups of this attempt have given
KnownBase ==
    IF Resolved(CommitApi) /\ Len(associatedPRs) = 1 /\ associatedPRs[1].base # NoString
    THEN associatedPRs[1].base
    ELSE IF Resolved(ListApi) /\ Len(headPRs) = 1 /\ headPRs[1].base # NoString
         THEN headPRs[1].base
         ELSE IF Len(Run.pull_requests) >= 1
              THEN Run.pull_requests[1].base
              ELSE NoString

\* the attempt is past the resolution of the pull request number
PastNumber == pc \in {GetApi, "done", "backoff"} /\ prNumber # NoNumber

\* C6: in workflow_run resolution, with the pull request number known: a
\* known base commit means the pull request is never fetched; an unknown one
\* means it is fetched by number, once; and a base commit still unknown
\* after the fetch is MissingBaseCommit, never Proceed.
C6_BaseCommit ==
    SuccessfulRun
    => /\ TimesCalled(GetApi) <= 1
       /\ Called(GetApi) =>
            /\ KnownBase = NoString
            /\ prNumber # NoNumber
            /\ calls[Len(calls)].api = GetApi
       /\ (PastNumber /\ KnownBase = NoString) => Called(GetApi)
       /\ Proceeds =>
            IF KnownBase # NoString
            THEN ~Called(GetApi) /\ result.baseSha = KnownBase
            ELSE Resolved(GetApi) /\ prData # NoString /\ result.baseSha = prData
       /\ (Resolved(GetApi) /\ prData = NoString) => MissingBaseCommit

C6_Witness ==
    /\ SuccessfulRun /\ prNumber # NoNumber
    /\ Resolved(GetApi) /\ prData = NoString
    /\ MissingBaseCommit

\* C6, the other side: a fetch that brings the base commit gives Proceed
C6_WitnessFetched ==
    /\ SuccessfulRun /\ Resolved(GetApi) /\ prData # NoString /\ Proceeds

\* C7: a pull_request event is answered Proceed with its own number and
\* base commit, no lookup made; it fails with MissingContext when the
\* number or the base commit is missing from the payload.
C7_DirectPullRequest ==
    event.eventName = "pull_request"
    => /\ calls = <<>>
       /\ pc \in {"start", "done"}
       /\ Done =>
            IF event.pull_request.number = NoNumber \/ event.pull_request.base = NoString
            THEN result.kind = "error"
            ELSE result = ProceedResult(event.pull_request.number, event.pull_request.base)

\* C8: every Proceed carries a non-empty base commit and a positive number.
C8_ProceedWellFormed ==
    result.kind = "proceed" => result.baseSha # NoString /\ result.prNumber > 0

----------------------------------------------------------------------------
(* Classification *)

\* the tool output as determineSemverType reads it, case folded
ReadOutput == LowerCased(Cleaned(tool))

\* the text holds the characters lit
Holds(text, lit) ==
    \E i \in 1..(Len(text) - Len(lit) + 1) :
       text[i] = lit[1] /\ SubSeq(text, i, i + Len(lit) - 1) = lit

PhraseNaming == [s \in SemverTypes |-> Chars("semver requires new " \o s \o " version")]

\* the severities the text names
SeveritiesIn(text) == {s \in SemverTypes : Holds(text, PhraseNaming[s])}

\* major > minor > patch
Rank(s) == CASE s = "major" -> 3 [] s = "minor" -> 2 [] s = "patch" -> 1

SuccessSubjects == {Chars("semver"), Chars("public"), Chars("api")}

\* the text holds "no", white space, and semver, public or api
SuccessPhraseIn(text) ==
    \E i \in 1..(Len(text) - 1) :
       /\ text[i] = "n" /\ text[i + 1] = "o"
       /\ \E j \in (i + 3)..Len(text) :
             /\ \A k \in (i + 2)..(j - 1) : text[k] \in {" ", "\n", "\t", "\r"}
             /\ \E w \in SuccessSubjects :
                   /\ j + Len(w) - 1 <= Len(text)
                   /\ SubSeq(text, j, j + Len(w) - 1) = w

HasClassified == pc = "classified"

\* C9: when classification does not fail it returns the highest of the
\* severities found in the output, major > minor > patch, and patch when
\* none was found.
C9_HighestSeverity ==
    (HasClassified /\ semver.kind = "ok")
    => LET found == SeveritiesIn(ReadOutput)
       IN  /\ semver.type \in SemverTypes
           /\ IF found = {}
              THEN semver.type = "patch"
              ELSE /\ semver.type \in found
                   /\ \A s \in found : Rank(s) <= Rank(semver.type)

C9_Witness ==
    /\ HasClassified /\ semver.kind = "ok"
    /\ semver.type = "major"
    /\ SeveritiesIn(ReadOutput) = {"major", "minor"}

\* C10: classification fails with UnparseableOutput, carrying the cleaned
\* text, exactly when the exit status is not zero, no severity phrase was
\* found and the success phrase is absent; otherwise it returns a
\* classification.
C10_UnparseableExactly ==
    HasClassified
    => LET out == ReadOutput
       IN  /\ semver.kind \in {"ok", "error"}
           /\ semver.kind = "error"
                <=> (tool.status # 0 /\ SeveritiesIn(out) = {} /\ ~SuccessPhraseIn(out))
           /\ semver.kind = "error" =>
                /\ semver.message = "cargo semver-checks failed to produce parseable output:\n"
                /\ semver.output = Cleaned(tool)
           /\ semver.kind = "ok" => semver.type \in SemverTypes

C10_Witness ==
    /\ HasClassified /\ semver.kind = "error"
    /\ tool.status # 0 /\ tool.stdout # <<>>

\* C10, the other side: a failing exit status with the success phrase is classified
C10_WitnessSuccessPhrase ==
    /\ HasClassified /\ semver.kind = "ok"
    /\ tool.status # 0
    /\ LET out == ReadOutput IN SeveritiesIn(out) = {} /\ SuccessPhraseIn(out)


\* C11: an output naming no severity but holding the success phrase is
\* classified patch, never a failure, whatever the exit status.
C11_SuccessPhraseGivesPatch ==
    (HasClassified /\ LET out == ReadOutput
                      IN  SeveritiesIn(out) = {} /\ SuccessPhraseIn(out))
    => semver.kind = "ok" /\ semver.type = "patch"

C11_Witness ==
    /\ HasClassified /\ tool.status = 1
    /\ semver.kind = "ok" /\ semver.type = "patch"
    /\ LET out == ReadOutput IN SeveritiesIn(out) = {} /\ SuccessPhraseIn(out)


\* C12: classification does not see colour sequences: the coloured output
\* and the same output with the ESC[...m sequences taken out are classified
\* alike, the same type or the same failure with the same text.
C12_ColourBlind ==
    pc = "compared" => semver = plainSemver

C12_Witness ==
    /\ pc = "compared"
    /\ tool.stdout # plainTool.stdout
    /\ plainTool.stdout = Chars("semver requires new major version")
    /\ semver.kind = "ok" /\ semver.type = "major"

\* C12, a failure: the text the error carries is the uncoloured text
C12_WitnessFailure ==
    /\ pc = "compared"
    /\ tool.stdout # plainTool.stdout
    /\ semver.kind = "error" /\ semver.output = Chars("error: failed")


----------------------------------------------------------------------------
(* withRetries *)

Retried == pc = "retried"
Rejected(i) == operations[i].fate = "rejected"
Qualifying(i) == Rejected(i) /\ operations[i].outcome.status \in {502, 503, 504}

\* C17: withRetries invokes its operation at most 3 times; an attempt is
\* made again only after one that failed with status 502, 503 or 504; any
\* other failure propagates at once, as does a qualifying failure of the
\* third attempt; a success returns its value and nothing is invoked after.
C17_CappedRetries ==
    LET n == Len(operations) IN
    /\ n <= 3
    /\ \A i \in 1..n : operations[i].attempt = i
    /\ \A i \in 1..(n - 1) : Qualifying(i)
    /\ Len(waits) = (IF pc = "waiting" THEN n ELSE n - 1) \/ n = 0
    /\ \A i \in 1..n :
          /\ operations[i].fate = "resolved" =>
                i = n /\ Retried /\ result = operations[i].outcome
          /\ (Rejected(i) /\ ~Qualifying(i)) =>
                i = n /\ Retried /\ result = operations[i].outcome
          /\ (Qualifying(i) /\ i = 3) =>
                Retried /\ result = operations[i].outcome
          /\ (Qualifying(i) /\ i < 3 /\ i = n) => pc = "waiting"
    /\ Retried => n >= 1 /\ operations[n].fate # "pending"

C17_Witness ==
    /\ Retried
    /\ Len(operations) = 3
    /\ \A i \in 1..3 : Rejected(i) /\ operations[i].outcome.status = 503
    /\ result = ApiErrorResult(503)
    /\ waits = <<1000, 2000>>

\* C17, the other sides: a retry that succeeds, a failure that is not retried
C17_WitnessRecovered ==
    /\ Retried /\ Len(operations) = 2
    /\ Qualifying(1) /\ operations[2].fate = "resolved" /\ result.kind = "proceed"

C17_WitnessNotRetried ==
    /\ Retried /\ Len(operations) = 1
    /\ Rejected(1) /\ result = ApiErrorResult(500)


----------------------------------------------------------------------------
(* Label reconciliation *)

\* withRetries(upsertSemverLabel) resolved
Labelled_Ok == pc = "labelled" /\ labelResult = Applied

\* the name is the prefix followed by something
BeginsWith(name, prefix) ==
    /\ Len(prefix) <= Len(name)
    /\ name = prefix \o SubSeq(name, Len(prefix) + 1, Len(name))

\* the labels with the prefix other than the new label
OtherPrefixed(names) == {n \in names : BeginsWith(n, labelPrefix) /\ n # newLabel}

\* the calls of this run (round) that change labels
MutationsOf(rnd) ==
    {i \in DOMAIN labelCalls :
        labelCalls[i].round = rnd /\ labelCalls[i].api \in {RemoveLabel, CreateLabel, AddLabels}}

\* C13: once upsertSemverLabel has completed on a pull request nobody else
\* touched, its labels are the labels it had, less every label with the
\* prefix other than the new label, plus the new label; and no removal is
\* ever called for a label without the prefix.
C13_Reconciled ==
    /\ (Labelled_Ok /\ ~others) =>
          /\ Names(prLabels) = (startLabels \ OtherPrefixed(startLabels)) \cup {newLabel}
          /\ newLabel \in Names(prLabels)
          /\ OtherPrefixed(Names(prLabels)) = {}
          /\ \A n \in startLabels : ~BeginsWith(n, labelPrefix) => n \in Names(prLabels)
    /\ \A i \in DOMAIN labelCalls :
          labelCalls[i].api = RemoveLabel =>
             BeginsWith(labelCalls[i].name, labelPrefix) /\ labelCalls[i].name # newLabel

C13_Witness ==
    /\ Labelled_Ok /\ ~others /\ round = 1
    /\ labelPrefix = "semver: " /\ newLabel = "semver: patch"
    /\ startLabels = {"semver: major", "semver: patches", "not semver: bug"}
    /\ Names(prLabels) = {"semver: patch", "not semver: bug"}

\* the attempt that read the labels found the new label among them
ReadNewLabel ==
    /\ pc \in (LabelApis \ {ListLabels}) \cup {"labelled", "label-backoff"}
    /\ \E i \in DOMAIN existingLabels : existingLabels[i] = newLabel

\* the calls of the attempt at work
CallsOfAttempt ==
    {i \in DOMAIN labelCalls :
        labelCalls[i].round = round /\ labelCalls[i].attempt = attempt}

\* C14 as stated: when the new label is on the pull request as
\* upsertSemverLabel reads the labels, it removes, adds and creates nothing.
C14_NoMutation ==
    ReadNewLabel =>
       \A i \in CallsOfAttempt : labelCalls[i].api = ListLabels

\* C14 as the code has it: when the new label is on the pull request as
\* upsertSemverLabel reads the labels, nothing is added, created or looked
\* up; the other labels with the prefix are removed all the same, and with
\* none of them on the pull request no label call but the listing is made.
C14_NoAddition ==
    ReadNewLabel =>
       /\ \A i \in CallsOfAttempt :
             /\ labelCalls[i].api \in {ListLabels, RemoveLabel}
             /\ labelCalls[i].api = RemoveLabel =>
                   labelCalls[i].name \in OtherPrefixed(Names(existingLabels))
       /\ OtherPrefixed(Names(existingLabels)) = {} =>
             \A i \in CallsOfAttempt : labelCalls[i].api = ListLabels
       /\ (Labelled_Ok /\ ~others) =>
             Names(prLabels) = Names(existingLabels) \ OtherPrefixed(Names(existingLabels))

C14_Witness ==
    /\ ReadNewLabel /\ Labelled_Ok /\ round = 1 /\ attempt = 1
    /\ Names(existingLabels) = {"semver: patch", "semver: major"}
    /\ newLabel = "semver: patch"
    /\ Names(prLabels) = {"semver: patch"}

\* C14, the case of the spec's example: nothing but the listing is called
C14_WitnessUntouched ==
    /\ ReadNewLabel /\ Labelled_Ok /\ round = 1 /\ attempt = 1
    /\ Names(existingLabels) = {"semver: patch", "not semver: bug"}
    /\ newLabel = "semver: patch"
    /\ Len(labelCalls) = 1

\* C15: the run done a second time with the same inputs on the labels the
\* first run left (nobody else touching them in between) calls no removal,
\* creation or addition and leaves the labels as the first run left them.
C15_Idempotent ==
    (round = 2 /\ ~others) =>
       /\ MutationsOf(2) = {}
       /\ Names(prLabels) = startLabels
       /\ \A i \in DOMAIN labelCalls :
             labelCalls[i].round = 2 => labelCalls[i].api = ListLabels

C15_Witness ==
    /\ round = 2 /\ ~others /\ Labelled_Ok
    /\ MutationsOf(1) # {}
    /\ \E i \in DOMAIN labelCalls : labelCalls[i].round = 2 /\ labelCalls[i].fate = "resolved"
    /\ Names(prLabels) = startLabels


----------------------------------------------------------------------------
(* Installation of the checker *)

\* the requests made for one network operation of the installation
RequestsOf(op) == {i \in DOMAIN requests : requests[i].op = op}

\* the request failed with a server-side status the retry policy names
TransientFailure(i) ==
    requests[i].fate = "rejected" /\ requests[i].code \in {502, 503, 504}

\* the release install was given up for cargo install
ReleaseInstallFailed == releaseError # NoResult

C18_WitnessLatest ==
    /\ pc = "installed"
    /\ Len(requests) = 1 /\ TransientFailure(1)
    /\ releaseError.message = "Failed to determine latest version"
    /\ installed = "cargo"


----------------------------------------------------------------------------
(* The run as a whole *)

Ended == pc = "ended"

\* C16: no label call is issued before classification has succeeded: when
\* context resolution, the fetch of the base commit, the installation, the
\* checker or determineSemverType fails, the labels stay as they were.
C16_LabelsAfterClassification ==
    /\ labelCalls # <<>> =>
          /\ result.kind = "proceed"
          /\ installed # "none" /\ installError = NoResult
          /\ tool # NoTool
          /\ semver.kind = "ok"
    /\ (semver.kind # "ok" \/ labelCalls = <<>>) =>
          /\ labelCalls = <<>>
          /\ newLabel = NoString
          /\ Names(prLabels) = startLabels
          /\ repoLabels = startLabels

C16_Witness ==
    /\ Ended
    /\ semver.kind = "error" /\ tool.status = 101
    /\ failure.set
    /\ labelCalls = <<>>
    /\ Names(prLabels) = {"semver: major", "semver: patches", "not semver: bug"}

\* the calls and requests in flight
LookupsInFlight == {i \in DOMAIN calls : calls[i].fate = "pending"}
LabelCallsInFlight == {i \in DOMAIN labelCalls : labelCalls[i].fate = "pending"}
RequestsInFlight == {i \in DOMAIN requests : requests[i].fate = "pending"}

\* C19: at most one platform call is in flight at any point of a run: a
\* lookup or a label call, first or repeated by withRetries, is started only
\* when every call before it has been answered.
C19_OneCallInFlight ==
    /\ Cardinality(LookupsInFlight) + Cardinality(LabelCallsInFlight) <= 1
    /\ \A i \in LookupsInFlight : i = Len(calls) /\ pc = calls[i].api
    /\ \A i \in LabelCallsInFlight : i = Len(labelCalls) /\ pc = labelCalls[i].api
    /\ labelCalls # <<>> => LookupsInFlight = {}
    /\ RequestsInFlight # {} => LookupsInFlight = {} /\ LabelCallsInFlight = {}

C19_Witness ==
    /\ Resolved(ListApi) /\ Resolved(CommitApi) /\ Resolved(GetApi)
    /\ Len(labelCalls) >= 4
    /\ labelCalls[Len(labelCalls)].fate = "pending"
    /\ labelCalls[Len(labelCalls)].api = RemoveLabel
    /\ labelCalls[Len(labelCalls)].attempt = 2

\* C20: whatever fatal condition a run raises ends in the catch clause of
\* run(), which records a failure carrying the message of that error.
C20_FatalRecorded ==
    (Ended /\ thrown.set) => failure.set /\ failure.message = thrown.message


----------------------------------------------------------------------------
(* The resolver, again *)

\* the position in the attempt's log of its call of api (0: not called)
PositionOf(api) ==
    IF Called(api) THEN CHOOSE i \in DOMAIN calls : calls[i].api = api ELSE 0

\* C26: an event that is neither pull_request nor workflow_run fails with
\* UnsupportedEvent, the message naming the event, and no lookup is issued.
C26_UnsupportedEvent ==
    event.eventName \notin {"pull_request", "workflow_run"}
    => /\ calls = <<>>
       /\ pc \in {"start", "done"}
       /\ attempt = 1
       /\ Done => FailsWith("Unsupported event type: " \o event.eventName)

C26_Witness ==
    /\ event.eventName = "pull_request_target"
    /\ event.pull_request.number # NoNumber /\ event.pull_request.base # NoString
    /\ Done /\ result.kind = "error" /\ calls = <<>>

\* C29: within one attempt each lookup is made at most once and in the
\* order branch lookup, commit lookup, fetch by number; the commit lookup is
\* made only with the number unresolved after the branch step, never after
\* a branch lookup that returned one pull request; the fetch comes last.
C29_LookupOrder ==
    /\ \A api \in {ListApi, CommitApi, GetApi} : TimesCalled(api) <= 1
    /\ Called(ListApi) => PositionOf(ListApi) = 1
    /\ Called(CommitApi) =>
          /\ PositionOf(CommitApi) = (IF Called(ListApi) THEN 2 ELSE 1)
          /\ SuccessfulRun /\ Len(Run.pull_requests) = 0
          /\ Called(ListApi) => Resolved(ListApi) /\ Len(headPRs) = 0
          /\ ~Called(ListApi) => ~OwnerAndBranchKnown
    /\ (Resolved(ListApi) /\ Len(headPRs) = 1) => ~Called(CommitApi)
    /\ Called(GetApi) =>
          /\ PositionOf(GetApi) = Len(calls)
          /\ \A i \in 1..(Len(calls) - 1) : calls[i].fate = "resolved"

C29_Witness ==
    /\ Len(calls) = 3
    /\ calls[1].api = ListApi /\ calls[2].api = CommitApi /\ calls[3].api = GetApi
    /\ Resolved(GetApi)
    /\ Len(headPRs) = 0 /\ Len(associatedPRs) = 1

\* C29, the other side: one pull request on the branch, no commit lookup
C29_WitnessBranch ==
    /\ Resolved(ListApi) /\ Len(headPRs) = 1 /\ Resolved(GetApi) /\ Len(calls) = 2

----------------------------------------------------------------------------
(* withRetries, the delays *)

\* C28: the wait after the k-th failed attempt, when that failure qualifies
\* and is not the last attempt, is k seconds; nothing is waited after the
\* third attempt, after a failure that does not qualify or after a success.
C28_LinearBackoff ==
    /\ \A k \in DOMAIN waits :
          /\ waits[k] = k * 1000
          /\ k < 3
          /\ k <= Len(operations) /\ Qualifying(k)
    /\ \A i \in DOMAIN operations :
          /\ (Qualifying(i) /\ i < 3) => Len(waits) >= i
          /\ (Rejected(i) /\ (i = 3 \/ ~Qualifying(i))) => Len(waits) = i - 1
          /\ operations[i].fate = "resolved" => Len(waits) = i - 1
          /\ operations[i].fate = "pending" => Len(waits) = i - 1

C28_Witness ==
    /\ waits = <<1000, 2000>>
    /\ Len(operations) = 3 /\ operations[3].fate = "resolved"

\* C28, the other side: the third attempt fails and nothing more is waited
C28_WitnessLast ==
    /\ Retried /\ Len(operations) = 3 /\ Qualifying(3) /\ Len(waits) = 2


----------------------------------------------------------------------------
(* Label reconciliation, again *)

\* the call after call i belongs to the same attempt of the same run
SameAttempt(i, j) ==
    labelCalls[i].round = labelCalls[j].round /\ labelCalls[i].attempt = labelCalls[j].attempt

\* C24: createLabel (colour ededed, description "Semver required update",
\* the new label's name) is called only right after a getLabel of the same
\* attempt failed with 404, the repository not defining the label; after a
\* getLabel that succeeded the attempt goes on to addLabels; after a getLabel
\* that failed otherwise the error leaves the attempt, which calls nothing
\* more: no createLabel and no addLabels.
C24_CreatedWhenMissing ==
    \A i \in DOMAIN labelCalls :
       LET call == labelCalls[i]
           last == i = Len(labelCalls)
       IN  /\ call.api = CreateLabel =>
                /\ call.name = newLabel
                /\ call.color = "ededed"
                /\ call.description = "Semver required update"
                /\ i > 1 /\ SameAttempt(i - 1, i)
                /\ labelCalls[i - 1].api = GetLabel
                /\ labelCalls[i - 1].name = newLabel
                /\ labelCalls[i - 1].fate = "rejected"
                /\ labelCalls[i - 1].status = 404
                /\ (call.fate = "pending" /\ ~others) => newLabel \notin repoLabels
           /\ (call.api = GetLabel /\ call.fate = "resolved") =>
                /\ ~last
                /\ labelCalls[i + 1].api = AddLabels /\ SameAttempt(i, i + 1)
           /\ (call.api = GetLabel /\ call.fate = "rejected" /\ call.status = 404) =>
                /\ ~last
                /\ labelCalls[i + 1].api = CreateLabel /\ SameAttempt(i, i + 1)
           /\ (call.api = GetLabel /\ call.fate = "rejected" /\ call.status # 404) =>
                /\ ~last => ~SameAttempt(i, i + 1) /\ labelCalls[i + 1].api = ListLabels
                /\ last =>
                     /\ pc \in {"labelled", "label-backoff", "upsert"}
                     /\ pc = "labelled" => labelResult = ApiErrorResult(call.status)
                     /\ pc = "label-backoff" => call.status \in {502, 503, 504}

C24_Witness ==
    /\ Labelled_Ok /\ round = 1 /\ attempt = 1 /\ ~others
    /\ \E i \in DOMAIN labelCalls :
          /\ labelCalls[i].api = CreateLabel /\ labelCalls[i].fate = "resolved"
          /\ labelCalls[i - 1].status = 404
    /\ newLabel \in repoLabels /\ newLabel \notin startLabels

\* C24, the other sides: getLabel fails for good, getLabel finds the label
C24_WitnessPropagated ==
    /\ pc = "labelled" /\ labelResult = ApiErrorResult(403)
    /\ labelCalls[Len(labelCalls)].api = GetLabel
    /\ newLabel \notin Names(prLabels)

C24_WitnessExisting ==
    /\ Labelled_Ok /\ attempt = 1 /\ round = 1
    /\ \E i \in DOMAIN labelCalls : labelCalls[i].api = GetLabel /\ labelCalls[i].fate = "resolved"
    /\ \A i \in DOMAIN labelCalls : labelCalls[i].api # CreateLabel

\* the first call of an attempt
OpensAttempt(i) == i = 1 \/ ~SameAttempt(i - 1, i)

\* a call of the attempt at work
OfAttemptAtWork(i) ==
    labelCalls[i].round = round /\ labelCalls[i].attempt = attempt

\* C30: every attempt of the reconciliation starts by reading the labels of
\* the pull request and reads them once; the removals and the addition of
\* the attempt at work are computed from what that attempt has read; and a
\* reconciliation that succeeds after attempts that failed with 502, 503 or
\* 504 (the failed call carried out or not) leaves the labels one
\* uninterrupted reconciliation would have left, nobody else touching them.
C30_RetriedFromFreshRead ==
    LET read == Names(existingLabels)
        stale == OtherPrefixed(read)
        removed == {labelCalls[j].name : j \in {k \in DOMAIN labelCalls :
                       OfAttemptAtWork(k) /\ labelCalls[k].api = RemoveLabel}}
    IN  /\ \A i \in DOMAIN labelCalls :
              /\ OpensAttempt(i) <=> labelCalls[i].api = ListLabels
              /\ (i > 1 /\ OpensAttempt(i) /\ labelCalls[i].round = labelCalls[i - 1].round) =>
                    /\ labelCalls[i - 1].fate = "rejected"
                    /\ labelCalls[i - 1].status \in {502, 503, 504}
                    /\ labelCalls[i].attempt = labelCalls[i - 1].attempt + 1
              /\ (OfAttemptAtWork(i) /\ labelCalls[i].api = RemoveLabel) =>
                    labelCalls[i].name \in stale
              /\ (OfAttemptAtWork(i) /\ labelCalls[i].api \in {GetLabel, CreateLabel, AddLabels}) =>
                    /\ newLabel \notin read
                    /\ stale \subseteq removed
                    /\ \A j \in DOMAIN labelCalls :
                          (OfAttemptAtWork(j) /\ labelCalls[j].api = RemoveLabel) => j < i
        /\ (Labelled_Ok /\ attempt > 1 /\ ~others) =>
              Names(prLabels) = (startLabels \ OtherPrefixed(startLabels)) \cup {newLabel}

\* the addition was carried out though the call failed, the retry succeeded
C30_Witness ==
    /\ Labelled_Ok /\ attempt = 2 /\ round = 1 /\ ~others
    /\ \E i \in DOMAIN labelCalls :
          /\ labelCalls[i].api = AddLabels /\ labelCalls[i].status = 503
          /\ labelCalls[i + 1].api = ListLabels
          /\ i + 1 = Len(labelCalls)
    /\ startLabels = {"semver: major", "semver: patches", "not semver: bug"}
    /\ Names(prLabels) = {"semver: patch", "not semver: bug"}

\* the first attempt failed after one removal, the second removed the rest
C30_WitnessAfterRemoval ==
    /\ Labelled_Ok /\ attempt = 2 /\ round = 1 /\ ~others
    /\ labelCalls[2].api = RemoveLabel /\ labelCalls[2].fate = "resolved"
    /\ labelCalls[3].api = RemoveLabel /\ labelCalls[3].status = 503
    /\ Names(existingLabels) = {"semver: patches", "not semver: bug"}
    /\ Names(prLabels) = {"semver: patch", "not semver: bug"}


----------------------------------------------------------------------------
(* Installation of the checker: the fallback *)

\* installCargoSemverChecks has settled
Installed == pc = "installed"

\* runCommand was called with this command
HasRun(command) == \E i \in DOMAIN commands : commands[i] = command

\* the release path was taken: a request was made for it
ReleaseAttempted == requests # <<>>

\* cargo --version failed: cargo cannot be run at all
CargoMissing == installError = ErrorResult("cargo is not available in PATH.")

\* the four statements of C22, for an installation that has settled
FallsBackAndSurfaces ==
    /\ (useReleaseBinary /\ (ReleaseInstallFailed \/ triple = NoString)) =>
          HasRun(CargoInstall)
    /\ (useReleaseBinary /\ installError # NoResult) =>
          /\ HasRun(CargoInstall)
          /\ BeginsWith(installError.message, "cargo-semver-checks install failed: ")
    /\ installed = "release" =>
          /\ ~HasRun(CargoInstall)
          /\ installError = NoResult
    /\ ~useReleaseBinary =>
          /\ ~ReleaseAttempted
          /\ ~HasRun(Tar)
          /\ ~ReleaseInstallFailed

C22_WitnessNoBinary ==
    /\ Installed /\ useReleaseBinary /\ triple = NoString
    /\ commands = <<CargoVersion, CargoInstall>> /\ installed = "cargo"

C22_WitnessRelease ==
    /\ Installed /\ installed = "release" /\ commands = <<CargoVersion, Tar>>

C22_WitnessCargoMissing ==
    /\ Installed /\ useReleaseBinary /\ triple # NoString /\ CargoMissing


----------------------------------------------------------------------------
(* The run as a whole, again *)

\* C23: when the resolver returns Skip the run ends without failure: no
\* command is run (no git fetch, no installation, no checker), no request
\* and no label call is made, no semver-type output is set and no failure
\* is recorded; the labels stay as they were.
C23_SkipEndsQuietly ==
    result.kind = "skip" =>
       /\ pc \in {"done", "ended"}
       /\ commands = <<>>
       /\ requests = <<>> /\ installed = "none"
       /\ tool = NoTool /\ semver = NoSemver
       /\ labelCalls = <<>> /\ newLabel = NoString
       /\ Names(prLabels) = startLabels /\ repoLabels = startLabels
       /\ semverOutput = NoString
       /\ ~thrown.set /\ ~failure.set

C23_Witness ==
    /\ Ended
    /\ result.kind = "skip"
    /\ event.eventName = "workflow_run" /\ Run.conclusion = "failure"
    /\ ~failure.set


----------------------------------------------------------------------------
(* The arguments of the checker *)

Built == pc = "built"
HasArg(arg) == \E i \in DOMAIN args : args[i] = arg
\* the argument arg stands in the list, and value right after it
ArgWith(arg, value) ==
    \E i \in 1..(Len(args) - 1) : args[i] = arg /\ args[i + 1] = value
TimesGiven(S) == Cardinality({i \in DOMAIN args : args[i] \in S})

FeatureGroupFlags == {"--all-features", "--default-features", "--only-explicit-features"}

\* C27: the argument list has --baseline-rev <baseSha>; -p <package> when
\* the package input is given and --workspace when it is not, never both;
\* +<toolchain> first when a toolchain is configured; at most one flag of a
\* feature group; --features <features> and --target <target> exactly
\* when these inputs are given.
C27_ArgumentList ==
    Built =>
       /\ ArgWith("--baseline-rev", options.baseSha)
       /\ TimesGiven({"--baseline-rev"}) = 1
       /\ HasArg("-p") <=> options.packageName # NoString
       /\ HasArg("-p") => ArgWith("-p", options.packageName)
       /\ HasArg("--workspace") <=> options.packageName = NoString
       /\ TimesGiven({"-p", "--workspace"}) = 1
       /\ options.toolchain # NoString => args[1] = "+" \o options.toolchain
       /\ \A i \in DOMAIN args :
             SubSeq(args[i], 1, 1) = "+" => i = 1 /\ options.toolchain # NoString
       /\ TimesGiven(FeatureGroupFlags) <= 1
       /\ \A flag \in FeatureGroupFlags :
             HasArg(flag) <=> "--" \o options.featureGroup = flag
       /\ HasArg("--features") <=> options.features # NoString
       /\ HasArg("--features") => ArgWith("--features", options.features)
       /\ HasArg("--target") <=> options.rustTarget # NoString
       /\ HasArg("--target") => ArgWith("--target", options.rustTarget)

C27_Witness ==
    /\ Built
    /\ args = <<"+nightly", "semver-checks", "--baseline-rev", "sha-a",
                "--release-type=patch", "-p", "my-crate", "--all-features",
                "--features", "serde,std", "--target", "wasm32-unknown-unknown">>

\* C27, the other side: nothing configured
C27_WitnessWorkspace ==
    /\ Built
    /\ args = <<"semver-checks", "--baseline-rev", "sha-b", "--release-type=patch",
                "--workspace">>


----------------------------------------------------------------------------
(* The checker asked for JSON output *)

\* the text of a result, colours and case apart
TextOf(res) == LowerCased(Cleaned(res))

\* the checker refused the flag: it failed, naming an argument it does not
\* know and the words output and format
RefusedJson(res) ==
    /\ res.status # 0
    /\ \E words \in {"unknown argument", "unexpected argument",
                     "unrecognized option", "found argument"} :
          Holds(TextOf(res), Chars(words))
    /\ Holds(TextOf(res), Chars("output"))
    /\ Holds(TextOf(res), Chars("format"))

\* C25: the checker is first run asking for JSON output; when it refuses
\* the flag it is run once more without it and the result of that second
\* run is the one handed to classification; in every other case it is run
\* once, and never more than twice.
C25_RerunWithoutJson ==
    /\ Len(invocations) <= 2
    /\ invocations # <<>> =>
          /\ invocations[1].json
          /\ RefusedJson(invocations[1].result) =>
                /\ pc \in {"rerun", "ran"}
                /\ pc = "rerun" <=> Len(invocations) = 1
          /\ ~RefusedJson(invocations[1].result) =>
                /\ pc = "ran" /\ Len(invocations) = 1
                /\ tool = invocations[1].result
    /\ Len(invocations) = 2 =>
          /\ ~invocations[2].json
          /\ pc = "ran"
          /\ tool = invocations[2].result
    /\ pc = "ran" => tool = invocations[Len(invocations)].result

C25_Witness ==
    /\ pc = "ran" /\ Len(invocations) = 2
    /\ invocations[1].result.status = 2
    /\ invocations[1].result.stderr =
          Chars("error: Found argument '--output-format' which wasn't expected\n")
    /\ tool.status = 1 /\ tool # invocations[1].result

\* C25, the other side: a failure that is no refusal of the flag
C25_WitnessOnce ==
    /\ pc = "ran" /\ Len(invocations) = 1
    /\ tool.status = 2
    /\ tool.stderr = Chars("error: unexpected argument '--baseline-rev' found\n")


----------------------------------------------------------------------------
(* Broken pipes *)

\* the error is a broken pipe of an output stream
IsBrokenPipe(error) == error.code = "EPIPE"

\* the errors that came this way
Came(via) == {i \in DOMAIN delivered : delivered[i].via = via}

\* C21: a broken pipe is never the failure the run records and never ends
\* the process, whether the write throws it, the stream emits it, or it
\* comes as an uncaught exception or an unhandled rejection: the failure
\* recorded and the exit are always those of another error.
C21_BrokenPipeSuppressed ==
    /\ failure.set =>
          /\ ~Holds(failure.message, Chars("EPIPE"))
          /\ \E i \in Came("catch") \cup Came("write") :
                /\ ~IsBrokenPipe(delivered[i].error)
                /\ Chars(delivered[i].error.message) = failure.message
    /\ exited =>
          /\ ~IsBrokenPipe(exitCause)
          /\ \E i \in Came("uncaughtException") \cup Came("unhandledRejection") :
                delivered[i].error = exitCause
    /\ (\A i \in DOMAIN delivered : IsBrokenPipe(delivered[i].error)) =>
          ~exited /\ ~failure.set
    /\ (\E i \in DOMAIN delivered :
           IsBrokenPipe(delivered[i].error) /\ delivered[i].via # "catch") => streamBroken

C21_Witness ==
    /\ Len(delivered) = 3
    /\ \A i \in DOMAIN delivered : IsBrokenPipe(delivered[i].error)
    /\ Came("uncaughtException") # {} /\ Came("unhandledRejection") # {} /\ Came("catch") # {}
    /\ pc = "ended" /\ thrown.set /\ ~failure.set /\ ~exited

\* C21, the other ways: the write throws it, the stream emits it
C21_WitnessStreams ==
    /\ Len(delivered) = 2
    /\ \A i \in DOMAIN delivered : IsBrokenPipe(delivered[i].error)
    /\ Came("write") # {} /\ Came("error") # {}
    /\ pc = "running" /\ ~exited /\ streamBroken


----------------------------------------------------------------------------
(* Termination of withRetries *)

\* the error of line 54, thrown past the loop
GenericFailure == ErrorResult("failed after 3 attempts.")

\* C34: when every invocation of the operation settles, withRetries ends;
\* it has then invoked the operation at most 3 times and waited at most
\* twice, and its outcome is the value the last invocation resolved with or
\* the error the last invocation rejected with, never the error of line 54.
C34_Terminates ==
    /\ <>Retried
    /\ [](Retried =>
            LET n == Len(operations) IN
            /\ n \in 1..3
            /\ Len(waits) <= 2
            /\ operations[n].fate \in {"resolved", "rejected"}
            /\ result = operations[n].outcome
            /\ result # GenericFailure)

C34_Witness ==
    /\ Retried
    /\ Len(operations) = 3 /\ Len(waits) = 2
    /\ Rejected(3) /\ operations[3].outcome.status = 502
    /\ result = ApiErrorResult(502)


----------------------------------------------------------------------------
(* Removals that fail *)

\* the places in the labels read, after place p, of the labels still to remove
StillToRemove(p) ==
    {q \in DOMAIN existingLabels :
        q > p /\ existingLabels[q] \in OtherPrefixed(Names(existingLabels))}

\* the place of the name in the labels read
PlaceOf(name) == CHOOSE p \in DOMAIN existingLabels : existingLabels[p] = name

\* C37: after a removeLabel that failed with 404 the attempt goes on as
\* after one that succeeded: with the removal of the next old label read,
\* or, none being left, with the addition of the new label (getLabel first),
\* or, the new label being among those read, with its successful end; after
\* a removeLabel that failed otherwise the attempt calls nothing more, so it
\* adds no label, and the error leaves it.
C37_RemovalNotFoundIsSuccess ==
    \A i \in DOMAIN labelCalls :
       LET call == labelCalls[i]
           last == i = Len(labelCalls)
       IN  /\ (call.api = RemoveLabel /\ call.fate = "rejected" /\ call.status = 404
               /\ OfAttemptAtWork(i)) =>
                LET rest == StillToRemove(PlaceOf(call.name)) IN
                IF rest # {}
                THEN /\ ~last /\ SameAttempt(i, i + 1)
                     /\ labelCalls[i + 1].api = RemoveLabel
                     /\ labelCalls[i + 1].name =
                           existingLabels[CHOOSE q \in rest : \A r \in rest : q <= r]
                ELSE IF newLabel \notin Names(existingLabels)
                THEN /\ ~last /\ SameAttempt(i, i + 1)
                     /\ labelCalls[i + 1].api = GetLabel
                     /\ labelCalls[i + 1].name = newLabel
                ELSE last /\ Labelled_Ok
           /\ (call.api = RemoveLabel /\ call.fate = "rejected" /\ call.status # 404) =>
                /\ \A j \in DOMAIN labelCalls : (j > i) => ~SameAttempt(i, j)
                /\ \A j \in DOMAIN labelCalls :
                      SameAttempt(i, j) => labelCalls[j].api \in {ListLabels, RemoveLabel}
                /\ last =>
                     /\ pc \in {"labelled", "label-backoff"}
                     /\ pc = "labelled" => labelResult = ApiErrorResult(call.status)
                     /\ pc = "label-backoff" => call.status \in {502, 503, 504}

\* a removal met 404, the next old label was removed and the new one added
C37_Witness ==
    /\ Labelled_Ok /\ attempt = 1 /\ round = 1
    /\ Len(labelCalls) >= 5
    /\ labelCalls[2].api = RemoveLabel /\ labelCalls[2].status = 404
    /\ labelCalls[3].api = RemoveLabel /\ labelCalls[3].fate = "resolved"
    /\ labelCalls[Len(labelCalls)].api = AddLabels
    /\ newLabel \in Names(prLabels)

\* C37, the other side: a removal failed with 403 and the attempt ended there
C37_WitnessAborted ==
    /\ pc = "labelled" /\ labelResult = ApiErrorResult(403)
    /\ labelCalls[Len(labelCalls)].api = RemoveLabel
    /\ Len(labelCalls) = 2
    /\ newLabel \notin Names(prLabels)

\* C37, once more: the last old label met 404, the new label was there already
C37_WitnessNothingToAdd ==
    /\ Labelled_Ok /\ attempt = 1 /\ round = 1
    /\ labelCalls[Len(labelCalls)].api = RemoveLabel
    /\ labelCalls[Len(labelCalls)].status = 404


----------------------------------------------------------------------------
(* The flag of the broken streams *)

\* the last wrapped write was refused: it returned false and the write
\* beneath it was not called
Refused == ~lastWrite.called /\ lastWrite.returned = "false"

\* C35: streamBroken, once true, stays true; a wrapped write of stdout or of
\* stderr that finds it true returns false and does not call the write
\* beneath it, whichever stream set it; and it is true after a broken pipe
\* thrown by a write or emitted by a stream, and after a write to a stream
\* destroyed or ended, which is refused likewise.
C35_BrokenFlagMonotone ==
    /\ [][streamBroken => streamBroken']_vars
    /\ [](/\ lastWrite.broken => Refused
          /\ (lastWrite.state.destroyed \/ lastWrite.state.writableEnded) =>
                streamBroken /\ Refused
          /\ (\E i \in DOMAIN delivered :
                 /\ delivered[i].via \in {"write", "error"}
                 /\ delivered[i].error.code = "EPIPE") => streamBroken)

\* stdout met a broken pipe; the write to stderr, open as ever, was refused
C35_Witness ==
    /\ Len(delivered) = 1
    /\ delivered[1].via = "write" /\ delivered[1].stream = "stdout"
    /\ delivered[1].error.code = "EPIPE"
    /\ lastWrite.stream = "stderr" /\ lastWrite.broken /\ lastWrite.state = OpenStream
    /\ Refused
    /\ streams["stderr"] = OpenStream

\* C35, the other way: the flag was set by a write to an ended stream
C35_WitnessEnded ==
    /\ delivered = <<>>
    /\ streamBroken
    /\ lastWrite.stream = "stdout" /\ ~lastWrite.broken /\ lastWrite.state.writableEnded
    /\ streams["stderr"] = OpenStream


----------------------------------------------------------------------------
(* The order of the steps of a run *)

\* the place of a command in the order run() calls for
RankOf(command) ==
    CASE command = GitCatFile -> 1
      [] command = GitFetch -> 2
      [] command = CargoVersion -> 3
      [] command = Tar -> 4
      [] command = CargoInstall -> 5
      [] command = CargoSemverChecks -> 6

\* git cat-file found the base commit, or git fetch brought it
BaselineConfirmed ==
    \/ gitStatuses = <<0>>
    \/ Len(gitStatuses) = 2 /\ gitStatuses[1] # 0 /\ gitStatuses[2] = 0

\* the installation has begun
InstallBegun == HasRun(CargoVersion) \/ requests # <<>> \/ installed # "none"

\* the installation has ended well
InstallSucceeded ==
    /\ installed # "none" /\ installError = NoResult
    /\ RequestsInFlight = {}

\* C32: the steps of a run come in the order resolve, base commit,
\* installation, checker, classification, labels, and each only after all
\* those before it succeeded: git is run only once the resolver returned a
\* pull request to go on with; the installation begins only once the base
\* commit is there (git cat-file exited with 0, or git fetch did); the
\* checker is run, once and as the last command, only once the installation
\* succeeded; classification needs the checker's result and the label calls
\* a classification; and a step that failed is the last one of the run.
C32_PipelineOrder ==
    /\ \A i, j \in DOMAIN commands : i < j => RankOf(commands[i]) < RankOf(commands[j])
    /\ commands # <<>> =>
          /\ result.kind = "proceed" /\ LookupsInFlight = {}
          /\ commands[1] = GitCatFile
          /\ gitStatuses # <<>>
    /\ HasRun(GitFetch) <=> Len(gitStatuses) = 2
    /\ gitStatuses # <<>> => commands # <<>>
    /\ InstallBegun => BaselineConfirmed /\ result.kind = "proceed"
    /\ (gitStatuses # <<>> /\ ~BaselineConfirmed) =>
          /\ Ended /\ failure.set
          /\ ~InstallBegun /\ ~HasRun(CargoSemverChecks)
          /\ tool = NoTool /\ semver = NoSemver /\ labelCalls = <<>>
    /\ HasRun(CargoSemverChecks) =>
          /\ BaselineConfirmed
          /\ InstallSucceeded
          /\ commands[Len(commands)] = CargoSemverChecks
    /\ installError # NoResult =>
          /\ ~HasRun(CargoSemverChecks)
          /\ tool = NoTool /\ semver = NoSemver /\ labelCalls = <<>>
    /\ tool # NoTool => HasRun(CargoSemverChecks)
    /\ semver # NoSemver => tool # NoTool
    /\ labelCalls # <<>> => semver.kind = "ok" /\ HasRun(CargoSemverChecks)
    /\ semverOutput # NoString => labelCalls # <<>> /\ LabelCallsInFlight = {}

\* the base commit was fetched, and the run went through to the label
C32_Witness ==
    /\ Ended /\ ~failure.set
    /\ gitStatuses = <<128, 0>>
    /\ commands[2] = GitFetch
    /\ HasRun(CargoSemverChecks)
    /\ semverOutput = "major"

\* C32, the other side: the fetch failed and nothing came after it
C32_WitnessNoBaseline ==
    /\ Ended /\ failure.set
    /\ gitStatuses = <<128, 128>>
    /\ commands = <<GitCatFile, GitFetch>>


----------------------------------------------------------------------------
(* The output of the run *)

\* withRetries(upsertSemverLabel) has thrown
LabelFailed == labelResult.kind = "error"

\* the output is there only once the reconciliation has ended well
PublishedAfterLabel ==
    semverOutput # NoString =>
       /\ Ended
       /\ labelResult = Applied /\ LabelCallsInFlight = {}
       /\ semver.kind = "ok" /\ semverOutput = semver.type

\* C33: the semver-type output is set only after the label reconciliation
\* has ended well, retries included; when it fails no output is set, though
\* the classification succeeded, and the run records a failure.
C33_OutputAfterLabel ==
    /\ PublishedAfterLabel
    /\ LabelFailed => semverOutput = NoString /\ semver.kind = "ok"
    /\ (Ended /\ LabelFailed) => failure.set

\* the part of C33 that holds: the output waits for the labels, and a
\* reconciliation that failed leaves no output
C33_OutputOnlyAfterLabel ==
    /\ PublishedAfterLabel
    /\ LabelFailed => semverOutput = NoString /\ semver.kind = "ok"
    /\ (Ended /\ LabelFailed /\ ~Holds(ErrorText(labelResult), Chars("EPIPE"))) =>
          failure.set /\ failure.message = ErrorText(labelResult)

\* the reconciliation failed after a retry, and the failure was recorded
C33_Witness ==
    /\ Ended /\ LabelFailed /\ failure.set
    /\ attempt = 3 /\ labelResult = ApiErrorResult(503)
    /\ semver.kind = "ok" /\ semverOutput = NoString

\* the output was set after a retry that succeeded
C33_WitnessPublished ==
    /\ Ended /\ semverOutput = "major" /\ attempt = 2 /\ ~failure.set


----------------------------------------------------------------------------
(* How a run ends *)

\* the resolver said skip: nothing set, nothing recorded
EndedSkipped ==
    /\ result.kind = "skip"
    /\ ~thrown.set /\ ~failure.set /\ semverOutput = NoString
    /\ labelCalls = <<>>

\* the label was reconciled and the output set
EndedSucceeded ==
    /\ result.kind = "proceed" /\ labelResult = Applied
    /\ semverOutput \in {"major", "minor", "patch"} /\ semverOutput = semver.type
    /\ ~thrown.set /\ ~failure.set

\* an error reached the catch clause and was recorded
EndedFailed ==
    /\ thrown.set /\ ~Holds(thrown.message, Chars("EPIPE"))
    /\ failure = thrown
    /\ semverOutput = NoString

\* an error reached the catch clause and was taken for a broken pipe, its
\* message holding EPIPE: nothing recorded
EndedSilently ==
    /\ thrown.set /\ Holds(thrown.message, Chars("EPIPE"))
    /\ ~failure.set
    /\ semverOutput = NoString

\* how many of the four ways the run has ended in
WaysEnded ==
    Cardinality({k \in 1..4 :
                    \/ k = 1 /\ EndedSkipped
                    \/ k = 2 /\ EndedSucceeded
                    \/ k = 3 /\ EndedFailed
                    \/ k = 4 /\ EndedSilently})

C36_WitnessSkipped == Ended /\ EndedSkipped /\ event.eventName = "workflow_run"

C36_WitnessSucceeded == Ended /\ EndedSucceeded /\ semverOutput = "patch"

C36_WitnessFailed == Ended /\ EndedFailed /\ installError # NoResult


----------------------------------------------------------------------------
(* Classification of structured output (src/src/index.js) *)

StructuredClassified == pc = "classified"

\* the cleaned output of the checker, and the document it is, if any
CleanedOutput == Trim(stripAnsi(tool.stdout \o <<"\n">> \o tool.stderr))
Document == tryParseJson(CleanedOutput)

\* the strings of a value, each with the key it stands under
RECURSIVE StringsOf(_, _)
StringsOf(key, value) ==
    IF value.type = "string" THEN {[key |-> key, text |-> value.text]}
    ELSE UNION {StringsOf(value.members[i].key, value.members[i].value) :
                   i \in DOMAIN value.members}

\* the severity a string names, if it names one
Named(text) == {s \in SemverTypes : toLowerCase(text) = s}

\* the severities of the phrase in a string, wherever it stands
PhrasesOf(text) ==
    LET lowered == LowerCased(Chars(text)) IN
    {s \in SemverTypes : \E i \in 1..Len(lowered) : RequiredUpdateAt(lowered, i, s)}

\* the findings of the structured search, as C31 has them
StructuredFindings ==
    UNION {(IF KeyMatches(p.key) THEN Named(p.text) ELSE {}) \cup PhrasesOf(p.text) :
              p \in StringsOf(NoString, Document)}

\* the findings of the scan of the text for the phrases
TextFindings == extractRequiredUpdatesFromTextOfFive(CleanedOutput)

\* C31: when the cleaned output is a JSON document, the set classified from
\* is the union of the findings of the structured search (the severities
\* named by strings under keys matching required[-_]?update, and those of
\* the phrase in the strings of the document) and the findings of the scan
\* of the same cleaned text for the phrases.
C31_UnionOfFindings ==
    (StructuredClassified /\ Document # NoJson) =>
       updatesUsed = StructuredFindings \cup TextFindings

\* what holds in place of C31: of a JSON document the structured search
\* alone is used, every string under a matching key going into the set in
\* lower case, whatever it says; the text is scanned only when the cleaned
\* output is no JSON document.
C31_StructuredAlone ==
    StructuredClassified =>
       IF Document # NoJson
       THEN /\ StructuredFindings \subseteq updatesUsed
            /\ \A u \in updatesUsed \ StructuredFindings :
                  \E p \in StringsOf(NoString, Document) :
                     KeyMatches(p.key) /\ u = toLowerCase(p.text)
            /\ \A p \in StringsOf(NoString, Document) :
                  KeyMatches(p.key) => toLowerCase(p.text) \in updatesUsed
       ELSE updatesUsed = TextFindings

\* a document whose text holds a phrase the structured search does not know
C31_Witness ==
    /\ StructuredClassified /\ Document # NoJson
    /\ updatesUsed = {} /\ TextFindings = {"major"}
    /\ tool.status = 0 /\ semver = Classified("patch")

\* a document with a string under a matching key that names no severity
C31_WitnessUnnamed ==
    /\ StructuredClassified /\ Document # NoJson
    /\ updatesUsed = {"none"} /\ tool.status = 1
    /\ semver = Classified("patch")

\* the documents are read back from their texts, keys and strings whole
C31_WitnessParsed ==
    /\ StructuredClassified
    /\ Document = JObject(<<Member("required-update", JString("MAJOR")),
                            Member("message", JString("say \"hi\""))>>)
    /\ updatesUsed = {"major"}

====
